---------------------------- MODULE Spec2Model ----------------------------
(***************************************************************************)
(* CROTP web authenticator: the vault store (src/src/db.ts) and the session *)
(* orchestration around it (src/src/main.ts).                              *)
(*                                                                         *)
(* JavaScript runs one task at a time; a task gives way only at an await.  *)
(* Every IndexedDB transaction is atomic, and the code between two awaits  *)
(* runs without interruption, so one action of this module is one          *)
(* transaction together with the synchronous continuation that consumes    *)
(* its result.                                                             *)
(***************************************************************************)
EXTENDS Integers, Sequences, FiniteSets, TLC

VARIABLES
    secrets,     \* object store "secrets": id -> DBSecretRecord
    clock,       \* Date.now()
    tasks,       \* db.ts calls in flight, one slot per concurrent caller
    base,        \* history: the store when the running group of calls began
    calls,       \* history: the calls started since then, in start order
    insertSeq,   \* history: ids in the order they were inserted
    nops,        \* history: how many calls have been made
    meta,        \* object store "meta": the value under 'appKey', if any
    sessionKey,  \* main.ts sessionKey: the imported CryptoKey, or null
    cache,       \* main.ts decryptedCache, a Map in insertion order
    cards,       \* ids of the account cards in the DOM
    tickTimer,   \* main.ts tickTimer: an interval id, or null
    intervals,   \* the live setInterval timers that call updateCodes
    handlers,    \* main.ts async handlers in flight
    storageOk,   \* whether IndexedDB requests succeed
    dbBlocked,   \* deleteDatabase is pending behind open connections
    nextKey,     \* the next value crypto.getRandomValues gives a device key
    nextIv,      \* the next value randomBytes gives an iv
    keysWritten, \* history: key values put under 'appKey' since the last wipe
    wiping,      \* history: clearAppData has begun zeroing, reload not yet done
    readInWipe,  \* history: secretBytes was read by a refresh while wiping
    totpIn,      \* totp.ts, crypto.ts: the arguments of the function under call
    totpOut,     \* totp.ts, crypto.ts: what the function returned, if it has
    totpRun,     \* totp.ts: the asynchronous call under way, if any
    stream,      \* main.ts stream: the camera's MediaStream, or null
    qrTimer,     \* main.ts qrTimer: an interval id, or null
    qrFound,     \* main.ts qrFound
    qrLive,      \* the live setInterval timers that call the scan callback
    scans,       \* the Start Camera handler and the scan callbacks in flight
    qrStored,    \* history: entries the callbacks stored since Start Camera
    qrLate       \* history: a callback stored an entry after stopCamera

dbVars == <<tasks, base, calls, insertSeq, nops>>

appVars == <<meta, sessionKey, cache, cards, tickTimer, intervals, handlers,
             storageOk, dbBlocked, nextKey, nextIv, keysWritten, wiping, readInWipe>>

totpVars == <<totpIn, totpOut, totpRun>>

scanVars == <<stream, qrTimer, qrFound, qrLive, scans, qrStored, qrLate>>

vars == <<secrets, clock, dbVars, appVars, totpVars, scanVars>>

-----------------------------------------------------------------------------
(* Bounds *)

MaxIds == 3
MaxClock == 1
MaxOrder == 3
MaxOps == 4
MaxRaceOps == 3
MaxAppIds == 2
MaxKeys == 2
MaxIvs == 2
MaxSeconds == 301
MaxCardIds == 3
MaxBusy == 2
MaxStored == 2
MaxScans == 2
MinPeriod == 5
MaxPeriod == 300

Ids == 1..MaxIds
Procs == 1..2
Orders == 0..MaxOrder

\* An optional value (T | undefined): None, or Some(v)
None == <<>>
Some(v) == <<v>>

-----------------------------------------------------------------------------
(* Strings are sequences of one-character strings. *)

IsSpace(c) == c = " "

RECURSIVE TrimStart(_)
TrimStart(s) ==
    IF s # <<>> /\ IsSpace(Head(s)) THEN TrimStart(Tail(s)) ELSE s

RECURSIVE TrimEnd(_)
TrimEnd(s) ==
    IF s # <<>> /\ IsSpace(s[Len(s)]) THEN TrimEnd(SubSeq(s, 1, Len(s) - 1)) ELSE s

\* String.prototype.trim
Trim(s) == TrimEnd(TrimStart(s))

\* input.issuer?.trim() || undefined, on an optional string
TrimIssuer(o) == IF o = None \/ Trim(o[1]) = <<>> THEN None ELSE Some(Trim(o[1]))

Labels == { <<" ", "a">> }

-----------------------------------------------------------------------------
(* The records object store *)

SetMin(S) == CHOOSE x \in S : \A y \in S : x <= y
SetMax(S) == CHOOSE x \in S : \A y \in S : y <= x

\* IDBObjectStore.getAll(): every record, ascending by key (the id)
RECURSIVE GetAllFrom(_, _)
GetAllFrom(store, ids) ==
    IF ids = {} THEN <<>>
    ELSE LET m == SetMin(ids) IN <<store[m]>> \o GetAllFrom(store, ids \ {m})

GetAll(store) == GetAllFrom(store, DOMAIN store)

\* Array.prototype.sort with (a, b) => a.order - b.order: stable
\* Mutant: a sort that puts a record before those of equal order
RECURSIVE InsertByOrderUnstable(_, _)
InsertByOrderUnstable(sorted, r) ==
    IF sorted = <<>> THEN <<r>>
    ELSE IF sorted[Len(sorted)].order < r.order THEN Append(sorted, r)
    ELSE Append(InsertByOrderUnstable(SubSeq(sorted, 1, Len(sorted) - 1), r),
                sorted[Len(sorted)])

RECURSIVE InsertByOrder(_, _)
InsertByOrder(sorted, r) ==
    IF sorted = <<>> THEN <<r>>
    ELSE IF sorted[Len(sorted)].order <= r.order THEN Append(sorted, r)
    ELSE Append(InsertByOrder(SubSeq(sorted, 1, Len(sorted) - 1), r), sorted[Len(sorted)])

RECURSIVE SortByOrder(_)
SortByOrder(arr) ==
    IF arr = <<>> THEN <<>>
    ELSE InsertByOrder(SortByOrder(SubSeq(arr, 1, Len(arr) - 1)), arr[Len(arr)])

\* Mutant: the records as getAll returns them, not sorted
listSecretsUnsorted(store) == GetAll(store)

listSecrets(store) == SortByOrder(GetAll(store))

ListIds(store) == [k \in 1..Len(listSecrets(store)) |-> listSecrets(store)[k].id]

\* IDBObjectStore.get: the record, or undefined
getSecret(store, id) == IF id \in DOMAIN store THEN Some(store[id]) ELSE None

\* IDBObjectStore.put: insert or overwrite
StorePut(store, rec) ==
    [i \in DOMAIN store \cup {rec.id} |-> IF i = rec.id THEN rec ELSE store[i]]

\* Mutant: a delete that takes the records of smaller id with it
StoreDeleteUpTo(store, id) == [i \in { j \in DOMAIN store : j > id } |-> store[i]]

\* IDBObjectStore.delete
StoreDelete(store, id) == [i \in DOMAIN store \ {id} |-> store[i]]

\* IDBObjectStore.add: rejects (ConstraintError) when the key exists
StoreAddOk(store, rec) == rec.id \notin DOMAIN store

EmptyStore == [i \in {} |-> None]


-----------------------------------------------------------------------------
(* db.ts: what each call computes *)

\* The ciphertext of pt under key with nonce iv (AES-GCM, as a term)
Cipher(key, iv, pt) == [key |-> key, iv |-> iv, pt |-> pt]

\* NewSecretInput values the callers of this model pass
NewInputs ==
    [label : Labels, issuer : {None}, alg : {"SHA-1"}, digits : {6},
     period : {30}, encSecret : {Cipher(1, 1, 1)}, iv : {1}]

\* UpdateSecretInput: every field but id is optional
UpdateInputs ==
    { in \in [id : Ids, label : {None, Some(<<"c", " ">>)}, issuer : {None},
               alg : {None}, digits : {None}, period : {None}, encSecret : {None},
               iv : {None}, order : {None, Some(0)}] :
        (in.label = None) # (in.order = None) }

Pair(id, order) == [id |-> id, order |-> order]

\* reorderSecrets batches: none, one pair, or two pairs on two ids
Batches ==
    {<<>>}
    \cup { <<Pair(i, 0)>> : i \in Ids }
    \cup { <<Pair(1, 2), Pair(2, 1)>> }

OrdersOf(current) == { current[k].order : k \in 1..Len(current) }

\* Mutant: the next order taken from the number of records
NextOrderByLength(current) == Len(current) + 1

\* current.length ? Math.max(...current.map((s) => s.order ?? 0)) + 1 : 1
NextOrder(current) ==
    IF Len(current) # 0 THEN SetMax(OrdersOf(current)) + 1 ELSE 1

\* addSecret: the record built from the input, the id drawn and the list read
NewRecord(input, id, now, current) ==
    [id |-> id,
     label |-> Trim(input.label),
     issuer |-> TrimIssuer(input.issuer),
     alg |-> input.alg,
     digits |-> input.digits,
     period |-> input.period,
     encSecret |-> input.encSecret,
     iv |-> input.iv,
     createdAt |-> now,
     updatedAt |-> now,
     order |-> NextOrder(current)]

\* a ?? b on an optional a
Coalesce(a, b) == IF a # None THEN a[1] ELSE b

\* Mutant: a merge that takes a missing order for 0
MergeUpdateDefaultOrder(existing, input, now) ==
    [existing EXCEPT
        !.label = IF input.label # None THEN Trim(input.label[1]) ELSE existing.label,
        !.order = IF input.order # None THEN input.order[1] ELSE 0,
        !.updatedAt = now]

\* updateSecret: existing merged with the fields the input supplies
MergeUpdate(existing, input, now) ==
    [existing EXCEPT
        !.label = IF input.label # None THEN Trim(input.label[1]) ELSE existing.label,
        !.issuer = IF input.issuer # None THEN TrimIssuer(input.issuer) ELSE existing.issuer,
        !.alg = Coalesce(input.alg, existing.alg),
        !.digits = Coalesce(input.digits, existing.digits),
        !.period = Coalesce(input.period, existing.period),
        !.encSecret = Coalesce(input.encSecret, existing.encSecret),
        !.iv = Coalesce(input.iv, existing.iv),
        !.order = Coalesce(input.order, existing.order),
        !.updatedAt = now]

\* Mutant: a reorder that puts a record for an id it did not find
ReorderOneUpsert(store, pair, now) ==
    IF pair.id \in DOMAIN store
    THEN StorePut(store, [store[pair.id] EXCEPT !.order = pair.order, !.updatedAt = now])
    ELSE StorePut(store, [id |-> pair.id, label |-> <<>>, issuer |-> None, alg |-> "SHA-1",
                          digits |-> 6, period |-> 30, encSecret |-> Cipher(1, 1, 1),
                          iv |-> 1, createdAt |-> now, updatedAt |-> now,
                          order |-> pair.order])

\* Mutant: a reorder that stamps createdAt as well
ReorderOneRestamp(store, pair, now) ==
    IF pair.id \in DOMAIN store
    THEN StorePut(store, [store[pair.id] EXCEPT !.order = pair.order, !.updatedAt = now,
                                                !.createdAt = now])
    ELSE store

\* reorderSecrets: one pair inside the transaction (get, then put when found)
ReorderOne(store, pair, now) ==
    IF pair.id \in DOMAIN store
    THEN StorePut(store, [store[pair.id] EXCEPT !.order = pair.order, !.updatedAt = now])
    ELSE store

\* reorderSecrets: the whole transaction, pairs applied in batch order
RECURSIVE ReorderAll(_, _, _)
ReorderAll(store, batch, now) ==
    IF batch = <<>> THEN store
    ELSE ReorderAll(ReorderOne(store, Head(batch), now), Tail(batch), now)


-----------------------------------------------------------------------------
(* db.ts calls as tasks: Start is the call, each later step one transaction *)

Call(op, id, input, batch) == [op |-> op, id |-> id, input |-> input, batch |-> batch]

DbCalls ==
    { Call("add", 0, in, <<>>) : in \in NewInputs }
    \cup { Call("update", in.id, in, <<>>) : in \in UpdateInputs }
    \cup { Call("delete", i, None, <<>>) : i \in Ids }
    \cup { Call("reorder", 0, None, b) : b \in Batches }
    \cup { Call("list", 0, None, <<>>) }

IdleTask == [pc |-> "idle", call |-> Call("none", 0, None, <<>>), now |-> 0,
             rec |-> None, ret |-> None, err |-> "none"]

InFlight(t) == t.pc \notin {"idle", "done", "failed"}

Quiescent == \A p \in Procs : ~InFlight(tasks[p])

\* The first step of a call, after its synchronous prefix
FirstPc(c) ==
    CASE c.op = "add" -> "add_list"
      [] c.op = "update" -> "update_get"
      [] c.op = "delete" -> "delete_tx"
      [] c.op = "reorder" -> IF Len(c.batch) = 0 THEN "done" ELSE "reorder_tx"
      [] c.op = "list" -> "list_get"

Remove(seq, x) == SelectSeq(seq, LAMBDA y : y # x)

\* A caller invokes a db.ts function.  addSecret reads Date.now() before its
\* first transaction.
Start(p, c) ==
    /\ ~InFlight(tasks[p])
    /\ nops' = nops + 1
    /\ c.op = "add" => \A i \in DOMAIN secrets : secrets[i].order <= MaxOrder
    /\ tasks' = [q \in Procs |->
                    IF q = p
                    THEN [IdleTask EXCEPT !.pc = FirstPc(c), !.call = c, !.now = clock]
                    ELSE IF Quiescent THEN IdleTask ELSE tasks[q]]
    /\ base' = IF Quiescent THEN secrets ELSE base
    /\ calls' = IF Quiescent THEN <<[p |-> p, call |-> c]>>
                ELSE Append(calls, [p |-> p, call |-> c])
    /\ UNCHANGED <<secrets, clock, insertSeq>>

\* addSecret, lines 172-187: listSecrets, then the record with a drawn id
AddList(p) ==
    /\ tasks[p].pc = "add_list"
    /\ \E id \in Ids :
         tasks' = [tasks EXCEPT ![p].pc = "add_put",
                     ![p].rec = Some(NewRecord(tasks[p].call.input, id, tasks[p].now,
                                               listSecrets(secrets)))]
    /\ UNCHANGED <<secrets, clock, base, calls, insertSeq, nops>>

\* addSecret, lines 189-196: store.add, then return the record
AddPut(p) ==
    /\ tasks[p].pc = "add_put"
    /\ LET record == tasks[p].rec[1] IN
         IF StoreAddOk(secrets, record)
         THEN /\ secrets' = StorePut(secrets, record)
              /\ insertSeq' = Append(insertSeq, record.id)
              /\ tasks' = [tasks EXCEPT ![p].pc = "done", ![p].ret = Some(record)]
         ELSE /\ tasks' = [tasks EXCEPT ![p].pc = "failed", ![p].err = "ConstraintError"]
              /\ UNCHANGED <<secrets, insertSeq>>
    /\ UNCHANGED <<clock, base, calls, nops>>

\* Mutant: updateSecret without the not-found check
UpdateGetNoCheck(p) ==
    /\ tasks[p].pc = "update_get"
    /\ LET id == tasks[p].call.id
           blank == [id |-> id, label |-> <<>>, issuer |-> None, alg |-> "SHA-1",
                     digits |-> 6, period |-> 30, encSecret |-> Cipher(1, 1, 1),
                     iv |-> 1, createdAt |-> clock, updatedAt |-> clock, order |-> 0]
           existing == IF id \in DOMAIN secrets THEN secrets[id] ELSE blank
       IN tasks' = [tasks EXCEPT ![p].pc = "update_put",
                      ![p].rec = Some(MergeUpdate(existing, tasks[p].call.input, clock))]
    /\ UNCHANGED <<secrets, clock, base, calls, insertSeq, nops>>

\* updateSecret, lines 218-232: getSecret, not-found check, the merged record
UpdateGet(p) ==
    /\ tasks[p].pc = "update_get"
    /\ LET existing == getSecret(secrets, tasks[p].call.id) IN
         IF existing = None
         THEN tasks' = [tasks EXCEPT ![p].pc = "failed", ![p].err = "Secret not found"]
         ELSE tasks' = [tasks EXCEPT ![p].pc = "update_put",
                          ![p].rec = Some(MergeUpdate(existing[1], tasks[p].call.input, clock))]
    /\ UNCHANGED <<secrets, clock, base, calls, insertSeq, nops>>

\* updateSecret, lines 234-241: store.put, then return the record
UpdatePut(p) ==
    /\ tasks[p].pc = "update_put"
    /\ LET updated == tasks[p].rec[1] IN
         /\ secrets' = StorePut(secrets, updated)
         /\ insertSeq' = IF updated.id \in DOMAIN secrets THEN insertSeq
                         ELSE Append(insertSeq, updated.id)
         /\ tasks' = [tasks EXCEPT ![p].pc = "done", ![p].ret = Some(updated)]
    /\ UNCHANGED <<clock, base, calls, nops>>

\* deleteSecret
DeleteTx(p) ==
    /\ tasks[p].pc = "delete_tx"
    /\ secrets' = StoreDelete(secrets, tasks[p].call.id)
    /\ insertSeq' = Remove(insertSeq, tasks[p].call.id)
    /\ tasks' = [tasks EXCEPT ![p].pc = "done"]
    /\ UNCHANGED <<clock, base, calls, nops>>

\* reorderSecrets: one readwrite transaction over the whole batch
ReorderTx(p) ==
    /\ tasks[p].pc = "reorder_tx"
    /\ secrets' = ReorderAll(secrets, tasks[p].call.batch, clock)
    /\ tasks' = [tasks EXCEPT ![p].pc = "done"]
    /\ UNCHANGED <<clock, base, calls, insertSeq, nops>>

\* listSecrets
ListGet(p) ==
    /\ tasks[p].pc = "list_get"
    /\ tasks' = [tasks EXCEPT ![p].pc = "done", ![p].ret = listSecrets(secrets)]
    /\ UNCHANGED <<secrets, clock, base, calls, insertSeq, nops>>

\* Time passes
Tick ==
    /\ clock < MaxClock
    /\ clock' = clock + 1
    /\ UNCHANGED <<secrets, tasks, base, calls, insertSeq, nops>>
    /\ UNCHANGED <<appVars, totpVars, scanVars>>

-----------------------------------------------------------------------------
(* crypto.ts and the session state of main.ts *)

AppIds == 1..MaxAppIds

\* decryptAESGCM: the plaintext, or a rejection when key or iv do not verify
decryptAESGCM(key, iv, ct) ==
    IF ct.key = key /\ ct.iv = iv THEN Some(ct.pt) ELSE None

\* encryptAESGCM: the iv is the one randomBytes drew inside the call
encryptAESGCM(key, plaintext, drawn) ==
    [ciphertext |-> Cipher(key, drawn, plaintext), iv |-> drawn]

\* The descriptor a form submit passes to storeEntry
FormEntry == [label |-> <<"a">>, issuer |-> None, secretBytes |-> 1,
              algorithm |-> "SHA-1", digits |-> 6, period |-> 30]

\* storeEntry, lines 428-436: the NewSecretInput built from entry and encryption
StoreInput(entry, enc) ==
    [label |-> entry.label, issuer |-> entry.issuer, alg |-> entry.algorithm,
     digits |-> entry.digits, period |-> entry.period,
     encSecret |-> enc.ciphertext, iv |-> enc.iv]

\* A DecryptedEntry
CacheEntry(r, secretBytes) ==
    [id |-> r.id, label |-> r.label, issuer |-> r.issuer, alg |-> r.alg,
     digits |-> r.digits, period |-> r.period, secretBytes |-> secretBytes]

CacheIds(c) == { c[k].id : k \in 1..Len(c) }

\* Map.prototype.set: a known key keeps its place
CacheSet(c, e) ==
    IF e.id \in CacheIds(c)
    THEN [k \in 1..Len(c) |-> IF c[k].id = e.id THEN e ELSE c[k]]
    ELSE Append(c, e)

HandlerNames == {"init", "submit", "wipe", "tick"}

IdleH == [pc |-> "idle", keyBytes |-> 0, key |-> 0, iv |-> 0, rec |-> None,
          records |-> <<>>, idx |-> 0, cur |-> 0, all |-> <<>>, pending |-> {},
          inCatch |-> FALSE, storageFailed |-> FALSE, decFailed |-> FALSE]

InitCalled == [IdleH EXCEPT !.pc = "init_sw"]

Running(h) == handlers[h].pc \notin {"idle", "done", "rejected"}

\* clearAppData is between stopTicker() and its first await: one synchronous
\* run, which no other handler can interleave
InSyncBlock == handlers["wipe"].pc \in {"wipe_zero", "wipe_forget"}

\* e.secretBytes.fill(0) for every entry of the cache
Zeroize(c) == [k \in 1..Len(c) |-> [c[k] EXCEPT !.secretBytes = 0]]

\* the timers left once clearInterval(tickTimer) has run
StoppedIntervals == IF tickTimer # None THEN intervals \ {tickTimer[1]} ELSE intervals

\* a stopTicker that forgets tickTimer and clears no interval
stopTickerNoClear ==
    /\ intervals' = intervals
    /\ tickTimer' = None

\* stopTicker, lines 453-458
stopTicker ==
    /\ intervals' = StoppedIntervals
    /\ tickTimer' = None

\* startTicker: stopTicker(), then a new interval
startTicker ==
    LET id == SetMin({ n \in 1..(Cardinality(StoppedIntervals) + 1) : n \notin StoppedIntervals })
    IN /\ intervals' = StoppedIntervals \cup {id}
       /\ tickTimer' = Some(id)

\* An updateCodes run holds a live iterator: clear() leaves it at the start
RewindTick(hs) == [hs EXCEPT !["tick"].idx = 0]

\* The ids refreshList finds in the cache, in list order
CachedInList(store, c) ==
    SelectSeq(ListIds(store), LAMBDA id : id \in CacheIds(c))

-----------------------------------------------------------------------------
(* totp.ts: the time step and the code of an HMAC output *)

\* a % b of JavaScript: the remainder takes the sign of the dividend
JsRem(a, b) == IF a >= 0 THEN a % b ELSE -((-a) % b)

\* Mutant: the step with divisions that round toward zero
stepAtTruncating(timestampMs, period) ==
    LET TruncDiv(a, b) == IF a >= 0 THEN a \div b ELSE -((-a) \div b)
    IN TruncDiv(TruncDiv(timestampMs, 1000), period)

\* stepAt: Math.floor(Math.floor(timestampMs / 1000) / period)
stepAt(timestampMs, period) ==
    LET seconds == timestampMs \div 1000
    IN seconds \div period

\* secondsRemaining: period - (seconds % period) - 1
secondsRemaining(timestampMs, period) ==
    LET seconds == timestampMs \div 1000
    IN period - JsRem(seconds, period) - 1

\* a & b and a | b on non-negative operands below 2^31
RECURSIVE BitAnd(_, _)
BitAnd(a, b) ==
    IF a = 0 \/ b = 0 THEN 0
    ELSE (a % 2) * (b % 2) + 2 * BitAnd(a \div 2, b \div 2)

RECURSIVE BitOr(_, _)
BitOr(a, b) ==
    IF a = 0 THEN b
    ELSE IF b = 0 THEN a
    ELSE (IF a % 2 = 1 \/ b % 2 = 1 THEN 1 ELSE 0) + 2 * BitOr(a \div 2, b \div 2)

\* a << n; with the operands dynamicTruncate gives it the result is below 2^31
Shl(a, n) == a * 2^n

\* dynamicTruncate: the 31-bit code at the offset the last byte names
dynamicTruncate(hmacBytes) ==
    LET offset == BitAnd(hmacBytes[Len(hmacBytes)], 15)
        p == SubSeq(hmacBytes, offset + 1, offset + 4)
    IN BitOr(BitOr(BitOr(Shl(BitAnd(p[1], 127), 24), Shl(p[2], 16)), Shl(p[3], 8)), p[4])

DigitChars == <<"0", "1", "2", "3", "4", "5", "6", "7", "8", "9">>

\* Number.prototype.toString of an integer
RECURSIVE NumToString(_)
NumToString(n) ==
    IF n < 0 THEN <<"-">> \o NumToString(-n)
    ELSE IF n < 10 THEN <<DigitChars[n + 1]>>
    ELSE Append(NumToString(n \div 10), DigitChars[(n % 10) + 1])

\* String.prototype.padStart with a one-character filler
RECURSIVE PadStart(_, _, _)
PadStart(str, targetLength, fill) ==
    IF Len(str) >= targetLength THEN str ELSE PadStart(<<fill>> \o str, targetLength, fill)

\* Mutant: the code without its leading zeros
padDigitsNoPad(n, digits) ==
    NumToString(JsRem(n, IF digits = 8 THEN 100000000 ELSE 1000000))

\* padDigits: n % 10^digits, padded on the left with '0'
padDigits(n, digits) ==
    LET mod == IF digits = 8 THEN 100000000 ELSE 1000000
        code == JsRem(n, mod)
    IN PadStart(NumToString(code), digits, "0")

\* Number values of JavaScript: a fraction num/den, or NaN and the infinities
\* (den = 0)
JsNum(n) == [num |-> n, den |-> 1]
JsFrac(n, d) == [num |-> n, den |-> d]
NaN == [num |-> 0, den |-> 0]
Infinity == [num |-> 1, den |-> 0]
isFinite(v) == v.den # 0
MathFloor(v) == v.num \div v.den

LowerChars ==
    << "a", "b", "c", "d", "e", "f", "g", "h", "i", "j", "k", "l", "m",
       "n", "o", "p", "q", "r", "s", "t", "u", "v", "w", "x", "y", "z" >>
UpperChars ==
    << "A", "B", "C", "D", "E", "F", "G", "H", "I", "J", "K", "L", "M",
       "N", "O", "P", "Q", "R", "S", "T", "U", "V", "W", "X", "Y", "Z" >>

\* String.prototype.toUpperCase and toLowerCase, a character at a time
toUpperCase(str) ==
    [i \in 1..Len(str) |->
        IF \E k \in 1..26 : LowerChars[k] = str[i]
        THEN UpperChars[CHOOSE k \in 1..26 : LowerChars[k] = str[i]]
        ELSE str[i]]

toLowerCase(str) ==
    [i \in 1..Len(str) |->
        IF \E k \in 1..26 : UpperChars[k] = str[i]
        THEN LowerChars[CHOOSE k \in 1..26 : UpperChars[k] = str[i]]
        ELSE str[i]]

\* normalizeAlg: SHA1 and SHA-1 in any case give 'SHA-1', SHA256 and SHA-256
\* give 'SHA-256', anything else and nothing at all give 'SHA-1'
normalizeAlg(alg) ==
    IF alg = None \/ alg = Some(<<>>) THEN "SHA-1"
    ELSE LET up == toUpperCase(alg[1])
         IN IF up = <<"S", "H", "A", "1">> \/ up = <<"S", "H", "A", "-", "1">> THEN "SHA-1"
            ELSE IF up = <<"S", "H", "A", "2", "5", "6">>
                    \/ up = <<"S", "H", "A", "-", "2", "5", "6">> THEN "SHA-256"
            ELSE "SHA-1"

\* normalizeDigits: d === 8 ? 8 : 6
normalizeDigits(d) == IF d = Some(JsNum(8)) THEN 8 ELSE 6

\* normalizePeriod: the floor of a finite number, 30 otherwise, clamped
normalizePeriod(p) ==
    LET period == IF p # None /\ isFinite(p[1]) THEN MathFloor(p[1]) ELSE 30
        atLeast == IF period < MinPeriod THEN MinPeriod ELSE period
    IN IF atLeast > MaxPeriod THEN MaxPeriod ELSE atLeast

\* the big-endian bytes of v, count of them
RECURSIVE BytesBE(_, _)
BytesBE(v, count) ==
    IF count = 0 THEN <<>> ELSE Append(BytesBE(v \div 256, count - 1), v % 256)

\* A step is a JavaScript number and may exceed a word of the model: the
\* record n stands for n.hi * 2^24 + n.lo + n.half / 2, with n.lo in
\* 0..2^24-1 and n.half in {0, 1}; hi is negative for a negative number
Wide(n) == [hi |-> n \div (2 ^ 24), lo |-> n % (2 ^ 24), half |-> 0]

\* BigInt(Math.floor(n))
BigIntFloor(n) == [hi |-> n.hi, lo |-> n.lo]

\* the loop of numberTo8ByteBE: bytes[i] = Number(v & 0xffn); v >>= 8n
RECURSIVE BigBytesBE(_, _)
BigBytesBE(v, count) ==
    IF count = 0 THEN <<>>
    ELSE Append(BigBytesBE([hi |-> v.hi \div 256,
                            lo |-> (v.lo \div 256) + (2 ^ 16) * (v.hi % 256)], count - 1),
                v.lo % 256)

\* Mutant: the counter with its low byte first
numberTo8ByteLE(n) ==
    LET be == BigBytesBE(BigIntFloor(n), 8) IN [i \in 1..8 |-> be[9 - i]]

\* Mutant: the operators & and >> of numbers, which work on ToInt32(n)
numberTo8ByteBE32(n) ==
    LET low == n.hi % 256
    IN BigBytesBE([hi |-> IF low >= 128 THEN low - 256 ELSE low, lo |-> n.lo], 8)

numberTo8ByteBE(n) == BigBytesBE(BigIntFloor(n), 8)

-----------------------------------------------------------------------------
(* crypto.subtle.sign('HMAC'): RFC 2104 over the SHA-1 and SHA-256 of FIPS   *)
(* 180-4. A 32-bit word is the integer its two's complement writes.          *)

Bit(n, i) == (n \div (2 ^ i)) % 2

XorNibble ==
    [a \in 0..15 |-> [b \in 0..15 |->
        ((Bit(a, 0) + Bit(b, 0)) % 2) + 2 * ((Bit(a, 1) + Bit(b, 1)) % 2)
        + 4 * ((Bit(a, 2) + Bit(b, 2)) % 2) + 8 * ((Bit(a, 3) + Bit(b, 3)) % 2)]]

AndNibble ==
    [a \in 0..15 |-> [b \in 0..15 |->
        Bit(a, 0) * Bit(b, 0) + 2 * Bit(a, 1) * Bit(b, 1)
        + 4 * Bit(a, 2) * Bit(b, 2) + 8 * Bit(a, 3) * Bit(b, 3)]]

OrNibble == [a \in 0..15 |-> [b \in 0..15 |-> a + b - AndNibble[a][b]]]

Nibble(a, i) == (a \div (16 ^ i)) % 16

\* a bitwise operation on two words, four bits at a time
Bitwise(table, a, b) ==
    LET n(i) == table[Nibble(a, i)][Nibble(b, i)]
        top == n(7)
    IN (IF top >= 8 THEN top - 16 ELSE top) * 268435456
       + n(6) * 16777216 + n(5) * 1048576 + n(4) * 65536
       + n(3) * 4096 + n(2) * 256 + n(1) * 16 + n(0)

Xor32(a, b) == Bitwise(XorNibble, a, b)
And32(a, b) == Bitwise(AndNibble, a, b)
Or32(a, b) == Bitwise(OrNibble, a, b)
Not32(a) == (-1) - a

\* a + b modulo 2^32
Add32(a, b) ==
    LET lo == (a % 65536) + (b % 65536)
        hi == (a \div 65536) + (b \div 65536) + (lo \div 65536)
    IN (((hi + 32768) % 65536) - 32768) * 65536 + (lo % 65536)

\* rotations and the logical right shift, by 1 to 30 bits
Rotl32(a, n) ==
    LET k == 32 - n
        top == ((a \div (2 ^ (k - 1))) \div 2) % (2 ^ n)
        sign == (a \div (2 ^ (k - 1))) % 2
        low == (a % (2 ^ (k - 1))) * (2 ^ n) + top
    IN IF sign = 1 THEN (low - 1073741824) - 1073741824 ELSE low

Rotr32(a, n) == Rotl32(a, 32 - n)
Shr32(a, n) == (a \div (2 ^ n)) % (2 ^ (32 - n))

\* big-endian words and bytes
Word(b1, b2, b3, b4) ==
    (IF b1 >= 128 THEN b1 - 256 ELSE b1) * 16777216 + b2 * 65536 + b3 * 256 + b4

WordBytes(w) == << (w \div 16777216) % 256, (w \div 65536) % 256, (w \div 256) % 256, w % 256 >>

BlockWords(block) ==
    [i \in 1..16 |-> Word(block[4 * i - 3], block[4 * i - 2], block[4 * i - 1], block[4 * i])]

RECURSIVE Flatten(_)
Flatten(words) ==
    IF words = <<>> THEN <<>> ELSE WordBytes(Head(words)) \o Flatten(Tail(words))

\* the padding of a message: 0x80, zeros, the length in bits
Pad(msg) ==
    LET n == Len(msg)
        zeros == (119 - (n % 64)) % 64
    IN msg \o <<128>> \o [i \in 1..zeros |-> 0] \o <<0, 0, 0, 0>> \o WordBytes(n * 8)

Sha1Next(w) ==
    LET t == Len(w) + 1
    IN Rotl32(Xor32(Xor32(w[t - 3], w[t - 8]), Xor32(w[t - 14], w[t - 16])), 1)

\* n more words of the message schedule
RECURSIVE Sha1Extend(_, _)
Sha1Extend(w, n) ==
    IF n = 0 \/ Len(w) = 0 THEN w
    ELSE IF n = 1 THEN Append(w, Sha1Next(w))
    ELSE Sha1Extend(Sha1Extend(w, n \div 2), n - (n \div 2))

Sha1Round(w, t, s) ==
    LET a == s[1] b == s[2] c == s[3] d == s[4] e == s[5]
        f == IF t <= 20 THEN Or32(And32(b, c), And32(Not32(b), d))
             ELSE IF t <= 40 THEN Xor32(Xor32(b, c), d)
             ELSE IF t <= 60 THEN Or32(Or32(And32(b, c), And32(b, d)), And32(c, d))
             ELSE Xor32(Xor32(b, c), d)
        k == IF t <= 20 THEN 1518500249
             ELSE IF t <= 40 THEN 1859775393
             ELSE IF t <= 60 THEN -1894007588
             ELSE -899497514
    IN << Add32(Add32(Add32(Add32(Rotl32(a, 5), f), e), k), w[t]), a, Rotl32(b, 30), c, d >>

\* rounds lo to hi, in order
RECURSIVE Sha1Rounds(_, _, _, _)
Sha1Rounds(w, lo, hi, s) ==
    IF Len(s) # 5 THEN s
    ELSE IF lo = hi THEN Sha1Round(w, lo, s)
    ELSE Sha1Rounds(w, ((lo + hi) \div 2) + 1, hi, Sha1Rounds(w, lo, (lo + hi) \div 2, s))

\* the 80 rounds over the schedule w, added to the chaining value h
Sha1Mix(h, w) ==
    LET s == IF Len(w) = 80 THEN Sha1Rounds(w, 1, 80, h) ELSE h
    IN [i \in 1..5 |-> Add32(h[i], s[i])]

Sha1Compress(h, block) == Sha1Mix(h, Sha1Extend(BlockWords(block), 64))

RECURSIVE Sha1Blocks(_, _)
Sha1Blocks(h, m) ==
    IF m = <<>> \/ Len(h) = 0 THEN h
    ELSE Sha1Blocks(Sha1Compress(h, SubSeq(m, 1, 64)), SubSeq(m, 65, Len(m)))

Sha1(msg) ==
    Flatten(Sha1Blocks(<<1732584193, -271733879, -1732584194, 271733878, -1009589776>>, Pad(msg)))

Sha256K ==
    <<
       1116352408, 1899447441, -1245643825, -373957723, 961987163, 1508970993,
       -1841331548, -1424204075, -670586216, 310598401, 607225278, 1426881987,
       1925078388, -2132889090, -1680079193, -1046744716, -459576895, -272742522,
       264347078, 604807628, 770255983, 1249150122, 1555081692, 1996064986,
       -1740746414, -1473132947, -1341970488, -1084653625, -958395405, -710438585,
       113926993, 338241895, 666307205, 773529912, 1294757372, 1396182291,
       1695183700, 1986661051, -2117940946, -1838011259, -1564481375, -1474664885,
       -1035236496, -949202525, -778901479, -694614492, -200395387, 275423344,
       430227734, 506948616, 659060556, 883997877, 958139571, 1322822218,
       1537002063, 1747873779, 1955562222, 2024104815, -2067236844, -1933114872,
       -1866530822, -1538233109, -1090935817, -965641998 >>

Sha256Next(w) ==
    LET t == Len(w) + 1
        s0 == Xor32(Xor32(Rotr32(w[t - 15], 7), Rotr32(w[t - 15], 18)), Shr32(w[t - 15], 3))
        s1 == Xor32(Xor32(Rotr32(w[t - 2], 17), Rotr32(w[t - 2], 19)), Shr32(w[t - 2], 10))
    IN Add32(Add32(Add32(w[t - 16], s0), w[t - 7]), s1)

RECURSIVE Sha256Extend(_, _)
Sha256Extend(w, n) ==
    IF n = 0 \/ Len(w) = 0 THEN w
    ELSE IF n = 1 THEN Append(w, Sha256Next(w))
    ELSE Sha256Extend(Sha256Extend(w, n \div 2), n - (n \div 2))

Sha256Round(w, t, s) ==
    LET a == s[1] b == s[2] c == s[3] d == s[4] e == s[5] f == s[6] g == s[7] h == s[8]
        S1 == Xor32(Xor32(Rotr32(e, 6), Rotr32(e, 11)), Rotr32(e, 25))
        ch == Xor32(And32(e, f), And32(Not32(e), g))
        temp1 == Add32(Add32(Add32(Add32(h, S1), ch), Sha256K[t]), w[t])
        S0 == Xor32(Xor32(Rotr32(a, 2), Rotr32(a, 13)), Rotr32(a, 22))
        maj == Xor32(Xor32(And32(a, b), And32(a, c)), And32(b, c))
    IN << Add32(temp1, Add32(S0, maj)), a, b, c, Add32(d, temp1), e, f, g >>

RECURSIVE Sha256Rounds(_, _, _, _)
Sha256Rounds(w, lo, hi, s) ==
    IF Len(s) # 8 THEN s
    ELSE IF lo = hi THEN Sha256Round(w, lo, s)
    ELSE Sha256Rounds(w, ((lo + hi) \div 2) + 1, hi, Sha256Rounds(w, lo, (lo + hi) \div 2, s))

Sha256Mix(h, w) ==
    LET s == IF Len(w) = 64 THEN Sha256Rounds(w, 1, 64, h) ELSE h
    IN [i \in 1..8 |-> Add32(h[i], s[i])]

Sha256Compress(h, block) == Sha256Mix(h, Sha256Extend(BlockWords(block), 48))

RECURSIVE Sha256Blocks(_, _)
Sha256Blocks(h, m) ==
    IF m = <<>> \/ Len(h) = 0 THEN h
    ELSE Sha256Blocks(Sha256Compress(h, SubSeq(m, 1, 64)), SubSeq(m, 65, Len(m)))

Sha256(msg) ==
    Flatten(Sha256Blocks(<< 1779033703, -1150833019, 1013904242, -1521486534, 1359893119, -1694144372, 528734635, 1541459225 >>, Pad(msg)))

\* the hash the key was imported for
Hash(alg, m) == IF alg = "SHA-256" THEN Sha256(m) ELSE Sha1(m)

\* the key, filled with zeros to a block and XORed with a pad byte
KeyPad(k0, pad) == [i \in 1..64 |-> Xor32(IF i <= Len(k0) THEN k0[i] ELSE 0, pad)]

\* RFC 2104 with a key of at most one block: H(K ^ opad, H(K ^ ipad, data))
HmacKeyed(k0, data, alg) ==
    Hash(alg, KeyPad(k0, 92) \o Hash(alg, KeyPad(k0, 54) \o data))

\* hmac: crypto.subtle.importKey('raw', key, HMAC over alg) and sign; a key
\* longer than a block is hashed first
hmac(bytesKey, data, alg) ==
    HmacKeyed(IF Len(bytesKey) > 64 THEN Hash(alg, bytesKey) ELSE bytesKey, data, alg)

\* generateTOTPForStep, when its HMAC has resolved
generateTOTPForStep(secret, step, digits, algorithm) ==
    padDigits(dynamicTruncate(hmac(secret, numberTo8ByteBE(Wide(step)), algorithm)), digits)

-----------------------------------------------------------------------------
(* crypto.subtle.encrypt and decrypt with { name: 'AES-GCM', iv } and a      *)
(* 256-bit key: AES of FIPS 197 in the Galois/Counter Mode of NIST SP        *)
(* 800-38D, with a 96-bit iv, no additional data and a 128-bit tag.  Bytes   *)
(* are numbers 0..255, blocks are sequences of 16 bytes.                     *)

XorByte(a, b) == 16 * XorNibble[a \div 16][b \div 16] + XorNibble[a % 16][b % 16]

\* x xor the first Len(x) bytes of y
XorBytes(x, y) == SubSeq([i \in 1..Len(x) |-> XorByte(x[i], y[i])], 1, Len(x))

Zeros(n) == [i \in 1..n |-> 0]

\* FIPS 197, figure 7
AesSBox ==
    <<
       99, 124, 119, 123, 242, 107, 111, 197, 48, 1, 103, 43, 254, 215, 171, 118, 202, 130,
       201, 125, 250, 89, 71, 240, 173, 212, 162, 175, 156, 164, 114, 192, 183, 253, 147,
       38, 54, 63, 247, 204, 52, 165, 229, 241, 113, 216, 49, 21, 4, 199, 35, 195, 24, 150,
       5, 154, 7, 18, 128, 226, 235, 39, 178, 117, 9, 131, 44, 26, 27, 110, 90, 160, 82,
       59, 214, 179, 41, 227, 47, 132, 83, 209, 0, 237, 32, 252, 177, 91, 106, 203, 190,
       57, 74, 76, 88, 207, 208, 239, 170, 251, 67, 77, 51, 133, 69, 249, 2, 127, 80, 60,
       159, 168, 81, 163, 64, 143, 146, 157, 56, 245, 188, 182, 218, 33, 16, 255, 243, 210,
       205, 12, 19, 236, 95, 151, 68, 23, 196, 167, 126, 61, 100, 93, 25, 115, 96, 129, 79,
       220, 34, 42, 144, 136, 70, 238, 184, 20, 222, 94, 11, 219, 224, 50, 58, 10, 73, 6,
       36, 92, 194, 211, 172, 98, 145, 149, 228, 121, 231, 200, 55, 109, 141, 213, 78, 169,
       108, 86, 244, 234, 101, 122, 174, 8, 186, 120, 37, 46, 28, 166, 180, 198, 232, 221,
       116, 31, 75, 189, 139, 138, 112, 62, 181, 102, 72, 3, 246, 14, 97, 53, 87, 185, 134,
       193, 29, 158, 225, 248, 152, 17, 105, 217, 142, 148, 155, 30, 135, 233, 206, 85, 40,
       223, 140, 161, 137, 13, 191, 230, 66, 104, 65, 153, 45, 15, 176, 84, 187, 22 >>

SubByte(a) == AesSBox[a + 1]

\* FIPS 197, 5.2: the round constants of AES-256
AesRcon == <<1, 2, 4, 8, 16, 32, 64>>

\* FIPS 197, 5.2: the schedule w, four bytes a word, with its next word
AesNextWord(w) ==
    LET i == Len(w) \div 4
        prev == SubSeq(w, Len(w) - 3, Len(w))
        back == SubSeq(w, Len(w) - 31, Len(w) - 28)
        temp == IF i % 8 = 0
                THEN << XorByte(SubByte(prev[2]), AesRcon[i \div 8]), SubByte(prev[3]),
                        SubByte(prev[4]), SubByte(prev[1]) >>
                ELSE IF i % 8 = 4
                THEN << SubByte(prev[1]), SubByte(prev[2]), SubByte(prev[3]), SubByte(prev[4]) >>
                ELSE prev
    IN w \o << XorByte(back[1], temp[1]), XorByte(back[2], temp[2]),
               XorByte(back[3], temp[3]), XorByte(back[4], temp[4]) >>

\* n more words of the key schedule
RECURSIVE AesExpand(_, _)
AesExpand(w, n) ==
    IF n = 0 \/ Len(w) = 0 THEN w
    ELSE IF n = 1 THEN AesNextWord(w)
    ELSE AesExpand(AesExpand(w, n \div 2), n - (n \div 2))

\* the 15 round keys of a 32-byte key, 240 bytes
AesKeySchedule(key) == AesExpand(key, 52)

\* multiplication by x in GF(2^8)
AesXtime(a) == IF a >= 128 THEN XorByte((2 * a) - 256, 27) ELSE 2 * a

\* FIPS 197, 5.1.3: MixColumns on the column a
AesMixColumn(a) ==
    << XorByte(XorByte(AesXtime(a[1]), XorByte(AesXtime(a[2]), a[2])), XorByte(a[3], a[4])),
       XorByte(XorByte(a[1], AesXtime(a[2])), XorByte(XorByte(AesXtime(a[3]), a[3]), a[4])),
       XorByte(XorByte(a[1], a[2]), XorByte(AesXtime(a[3]), XorByte(AesXtime(a[4]), a[4]))),
       XorByte(XorByte(XorByte(AesXtime(a[1]), a[1]), a[2]), XorByte(a[3], AesXtime(a[4]))) >>

\* FIPS 197, 5.1: round r of 14 on the state s: SubBytes, ShiftRows,
\* MixColumns (not in the last round), AddRoundKey
AesRound(rk, r, s) ==
    LET shifted == [i \in 1..16 |->
                       SubByte(s[((i - 1) % 4) + 4 * ((((i - 1) \div 4) + ((i - 1) % 4)) % 4) + 1])]
        mixed == IF r = 14 THEN shifted
                 ELSE AesMixColumn(SubSeq(shifted, 1, 4)) \o AesMixColumn(SubSeq(shifted, 5, 8))
                      \o AesMixColumn(SubSeq(shifted, 9, 12))
                      \o AesMixColumn(SubSeq(shifted, 13, 16))
    IN XorBytes(mixed, SubSeq(rk, 16 * r + 1, 16 * r + 16))

\* rounds lo to hi, in order
RECURSIVE AesRounds(_, _, _, _)
AesRounds(rk, lo, hi, s) ==
    IF Len(s) # 16 THEN s
    ELSE IF lo = hi THEN AesRound(rk, lo, s)
    ELSE AesRounds(rk, ((lo + hi) \div 2) + 1, hi, AesRounds(rk, lo, (lo + hi) \div 2, s))

\* the cipher on one block, under the round keys rk
AesEncryptBlock(rk, block) == AesRounds(rk, 1, 14, XorBytes(block, rk))

\* SP 800-38D, 6.3: one step of the multiplication of x by the block that v
\* began as; zv is the pair of Z and V, bit 0 is the leftmost bit of x
GcmMulStep(x, i, zv) ==
    LET z == zv[1]
        v == zv[2]
        shifted == SubSeq([j \in 1..16 |->
                              (v[j] \div 2) + (IF j > 1 THEN 128 * (v[j - 1] % 2) ELSE 0)], 1, 16)
    IN << IF Bit(x[(i \div 8) + 1], 7 - (i % 8)) = 1 THEN XorBytes(z, v) ELSE z,
          IF v[16] % 2 = 1 THEN [shifted EXCEPT ![1] = XorByte(@, 225)] ELSE shifted >>

RECURSIVE GcmMulSteps(_, _, _, _)
GcmMulSteps(x, lo, hi, zv) ==
    IF Len(zv[1]) # 16 \/ Len(zv[2]) # 16 THEN zv
    ELSE IF lo = hi THEN GcmMulStep(x, lo, zv)
    ELSE GcmMulSteps(x, ((lo + hi) \div 2) + 1, hi, GcmMulSteps(x, lo, (lo + hi) \div 2, zv))

\* the product of the blocks x and y in GF(2^128)
GcmMul(x, y) == GcmMulSteps(x, 0, 127, <<Zeros(16), y>>)[1]

\* SP 800-38D, 6.4: GHASH under h of the blocks of data, from the value x on
RECURSIVE Ghash(_, _, _)
Ghash(h, x, data) ==
    IF data = <<>> \/ Len(x) # 16 THEN x
    ELSE Ghash(h, GcmMul(XorBytes(x, SubSeq(data, 1, 16)), h), SubSeq(data, 17, Len(data)))

\* the ciphertext padded to whole blocks, then the bit lengths of the empty
\* additional data and of the ciphertext, 64 bits each
GhashInput(ct) ==
    ct \o Zeros((16 - (Len(ct) % 16)) % 16) \o Zeros(8) \o BytesBE(8 * Len(ct), 8)

\* SP 800-38D, 6.5: GCTR from counter n on: data xor the enciphered counters
RECURSIVE GcmCtr(_, _, _, _)
GcmCtr(rk, iv, n, data) ==
    IF data = <<>> THEN <<>>
    ELSE LET len == IF Len(data) < 16 THEN Len(data) ELSE 16
         IN XorBytes(SubSeq(data, 1, len), AesEncryptBlock(rk, iv \o BytesBE(n, 4)))
            \o GcmCtr(rk, iv, n + 1, SubSeq(data, len + 1, Len(data)))

\* the tag of the ciphertext ct: GHASH under E(0) xor the enciphered J0
GcmTag(rk, iv, ct) ==
    XorBytes(Ghash(AesEncryptBlock(rk, Zeros(16)), Zeros(16), GhashInput(ct)),
             AesEncryptBlock(rk, iv \o <<0, 0, 0, 1>>))

GcmSeal(rk, iv, ct) == ct \o GcmTag(rk, iv, ct)

\* None is the OperationError of a tag that does not verify
GcmOpen(rk, iv, ct, tag) ==
    IF GcmTag(rk, iv, ct) # tag THEN None ELSE Some(GcmCtr(rk, iv, 2, ct))

\* Mutant: the counter mode alone, the tag not verified
SubtleDecryptUnauthenticated(key, iv, data) ==
    IF Len(data) < 16 THEN None
    ELSE Some(GcmCtr(AesKeySchedule(key), iv, 2, SubSeq(data, 1, Len(data) - 16)))

\* crypto.subtle.encrypt: the ciphertext followed by the tag
SubtleEncrypt(key, iv, plaintext) ==
    GcmSeal(AesKeySchedule(key), iv, GcmCtr(AesKeySchedule(key), iv, 2, plaintext))

\* crypto.subtle.decrypt: the plaintext, or None for the rejection
SubtleDecrypt(key, iv, data) ==
    IF Len(data) < 16 THEN None
    ELSE GcmOpen(AesKeySchedule(key), iv, SubSeq(data, 1, Len(data) - 16),
                 SubSeq(data, Len(data) - 15, Len(data)))

-----------------------------------------------------------------------------
(* totp.ts: base32DecodeToBytes *)

\* What a call that may throw gives back: the value returned, or the Error
Ok(v) == [threw |-> FALSE, value |-> v, message |-> <<>>]
Throw(message) == [threw |-> TRUE, value |-> None, message |-> message]

\* Characters the class \s matches
IsWhitespace(c) == c \in {" ", "\t", "\n", "\r"}

\* Mutant: the whitespace is left in
keepWhitespace(str) == str

\* .replace(/\s+/g, '')
removeWhitespace(str) == SelectSeq(str, LAMBDA c : ~IsWhitespace(c))

\* Mutant: the padding is left in
keepPadding(str) == str

\* .replace(/=+$/g, '')
RECURSIVE stripPadding(_)
stripPadding(str) ==
    IF str # <<>> /\ str[Len(str)] = "=" THEN stripPadding(SubSeq(str, 1, Len(str) - 1))
    ELSE str

\* line 333: cleaned
base32Clean(input) == toUpperCase(stripPadding(removeWhitespace(input)))

\* line 336: alphabet
Base32Alphabet ==
    << "A", "B", "C", "D", "E", "F", "G", "H", "I", "J", "K", "L", "M", "N", "O", "P",
       "Q", "R", "S", "T", "U", "V", "W", "X", "Y", "Z", "2", "3", "4", "5", "6", "7" >>

\* Mutant: a character the alphabet lacks counts as 'A'
base32LookupLenient(ch) ==
    IF \E k \in 1..32 : Base32Alphabet[k] = ch
    THEN Some((CHOOSE k \in 1..32 : Base32Alphabet[k] = ch) - 1)
    ELSE Some(0)

\* lines 337-338 and 346: lookup.get(ch), undefined for other characters
base32Lookup(ch) ==
    IF \E k \in 1..32 : Base32Alphabet[k] = ch
    THEN Some((CHOOSE k \in 1..32 : Base32Alphabet[k] = ch) - 1)
    ELSE None

\* a << n on a 32-bit integer: the bits shifted past bit 31 are lost
Shl32(a, n) ==
    LET low == a % (2 ^ (32 - n))
    IN IF low >= 2 ^ (31 - n) THEN (low - 2 ^ (32 - n)) * (2 ^ n) ELSE low * (2 ^ n)

\* Mutant: the low byte of the accumulator, whatever bits are left over
LowByte(value, bits) == value % 256

\* line 355: (value >>> bits) & 0xff, bits below 24
ShiftedByte(value, bits) == (value \div (2 ^ bits)) % 256

\* lines 344-358: the loop from character i on; value is a 32-bit integer
RECURSIVE base32Loop(_, _, _, _, _)
base32Loop(cleaned, i, value, bits, out) ==
    IF i > Len(cleaned) THEN Ok(out)
    ELSE LET v == base32Lookup(cleaned[i])
         IN IF v = None
            THEN Throw(<<"Invalid Base32 character: ", cleaned[i]>>)
            ELSE IF bits + 5 >= 8
            THEN base32Loop(cleaned, i + 1, Or32(Shl32(value, 5), v[1]), bits + 5 - 8,
                     Append(out, ShiftedByte(Or32(Shl32(value, 5), v[1]), bits + 5 - 8)))
            ELSE base32Loop(cleaned, i + 1, Or32(Shl32(value, 5), v[1]), bits + 5, out)

\* base32DecodeToBytes, lines 332-362
base32DecodeToBytes(input) ==
    IF Len(base32Clean(input)) = 0 THEN Ok(<<>>)
    ELSE base32Loop(base32Clean(input), 1, 0, 0, <<>>)

-----------------------------------------------------------------------------
(* totp.ts: parseOtpauthUri and fromManualInput, with the parts of the URL   *)
(* Standard, URLSearchParams, decodeURIComponent and parseInt they rest on.  *)

\* The least index of str that holds a character of set, Len(str) + 1 if none
IndexOfAny(str, set) ==
    LET hits == { i \in 1..Len(str) : str[i] \in set }
    IN IF hits = {} THEN Len(str) + 1 ELSE SetMin(hits)

Take(str, n) == SubSeq(str, 1, n)
Drop(str, n) == SubSeq(str, n + 1, Len(str))

\* The characters of the bytes 0x20 to 0x7E (the grave accent by its code point)
AsciiChars ==
    <<
       " ", "!", "\"", "#", "$", "%", "&", "'", "(", ")", "*", "+", ",", "-", ".", "/",
       "0", "1", "2", "3", "4", "5", "6", "7", "8", "9", ":", ";", "<", "=", ">", "?",
       "@", "A", "B", "C", "D", "E", "F", "G", "H", "I", "J", "K", "L", "M", "N", "O",
       "P", "Q", "R", "S", "T", "U", "V", "W", "X", "Y", "Z", "[", "\\", "]", "^", "_",
       "U+0060", "a", "b", "c", "d", "e", "f", "g", "h", "i", "j", "k", "l", "m", "n", "o",
       "p", "q", "r", "s", "t", "u", "v", "w", "x", "y", "z", "{", "|", "}", "~" >>

HexDigits ==
    << "0", "1", "2", "3", "4", "5", "6", "7", "8", "9", "A", "B", "C", "D", "E", "F" >>

IsHex(c) == \E k \in 1..16 : HexDigits[k] = c \/ (LowerChars[k] = c /\ k <= 6)

HexValue(c) ==
    IF \E k \in 1..16 : HexDigits[k] = c THEN (CHOOSE k \in 1..16 : HexDigits[k] = c) - 1
    ELSE 9 + (CHOOSE k \in 1..6 : LowerChars[k] = c)

\* whether str begins with a percent escape, and the byte it encodes
IsEscape(str) == Len(str) >= 3 /\ str[1] = "%" /\ IsHex(str[2]) /\ IsHex(str[3])
EscapedByte(str) == 16 * HexValue(str[2]) + HexValue(str[3])

\* %XX for a byte
Escape(byte) == <<"%", HexDigits[(byte \div 16) + 1], HexDigits[(byte % 16) + 1]>>

\* The character of a decoded byte; the bytes outside 0x20-0x7E are shown
\* as the replacement character
CharOfByte(byte) == IF byte \in 32..126 THEN AsciiChars[byte - 31] ELSE "U+FFFD"

ByteOfChar(c) == 31 + (CHOOSE k \in 1..95 : AsciiChars[k] = c)

\* URL Standard, percent-encode after encoding: the characters of set escaped
RECURSIVE PercentEncode(_, _)
PercentEncode(str, set) ==
    IF str = <<>> THEN <<>>
    ELSE (IF Head(str) \in set THEN Escape(ByteOfChar(Head(str))) ELSE <<Head(str)>>)
         \o PercentEncode(Tail(str), set)

\* URL Standard, percent-decode: an escape gives its byte, anything else stays
RECURSIVE PercentDecode(_)
PercentDecode(str) ==
    IF str = <<>> THEN <<>>
    ELSE IF IsEscape(str) THEN <<CharOfByte(EscapedByte(str))>> \o PercentDecode(Drop(str, 3))
    ELSE <<Head(str)>> \o PercentDecode(Tail(str))

\* decodeURIComponent: None stands for the URIError it throws on a '%' that
\* begins no escape and on a byte that begins no UTF-8 sequence
RECURSIVE decodeURIComponent(_)
decodeURIComponent(str) ==
    IF str = <<>> THEN Some(<<>>)
    ELSE IF Head(str) # "%"
    THEN LET rest == decodeURIComponent(Tail(str))
         IN IF rest = None THEN None ELSE Some(<<Head(str)>> \o rest[1])
    ELSE IF ~IsEscape(str) \/ EscapedByte(str) >= 128 THEN None
    ELSE LET rest == decodeURIComponent(Drop(str, 3))
         IN IF rest = None THEN None ELSE Some(<<CharOfByte(EscapedByte(str))>> \o rest[1])

SchemeChars ==
    { LowerChars[k] : k \in 1..26 } \cup { UpperChars[k] : k \in 1..26 }
    \cup { DigitChars[k] : k \in 1..10 } \cup {"+", "-", "."}

Letters == { LowerChars[k] : k \in 1..26 } \cup { UpperChars[k] : k \in 1..26 }

\* URL Standard: the special schemes
SpecialSchemes ==
    { <<"h", "t", "t", "p">>, <<"h", "t", "t", "p", "s">>, <<"w", "s">>, <<"w", "s", "s">>, <<"f", "t", "p">>, <<"f", "i", "l", "e">> }

\* URL Standard: forbidden host code points
ForbiddenHostChars ==
    {" ", "\t", "\n", "\r", "#", "/", ":", "<", ">", "?", "@", "[", "\\", "]", "^", "|"}

\* URL Standard: the path and the query percent-encode sets, within ASCII
PathEncodeSet == {" ", "\"", "#", "<", ">", "?", "U+0060", "{", "}"}
QueryEncodeSet == {" ", "\"", "#", "<", ">"}

\* The value of a string of decimal digits
RECURSIVE DigitsValue(_)
DigitsValue(str) ==
    IF str = <<>> THEN 0
    ELSE 10 * DigitsValue(Take(str, Len(str) - 1))
         + (CHOOSE d \in 0..9 : DigitChars[d + 1] = str[Len(str)])

IsDigit(c) == \E k \in 1..10 : DigitChars[k] = c

\* URL Standard, authority state of a URL that is not special: credentials up
\* to the last '@', then an opaque host, then ':' and a port.  None is failure.
ParseAuthority(authority) ==
    LET ats == { i \in 1..Len(authority) : authority[i] = "@" }
        at == IF ats = {} THEN 0 ELSE SetMax(ats)
        hostport == Drop(authority, at)
        colon == IndexOfAny(hostport, {":"})
        host == Take(hostport, colon - 1)
        port == Drop(hostport, colon)
    IN IF \/ \E i \in 1..Len(host) : host[i] \in ForbiddenHostChars
          \/ \E i \in 1..Len(port) : ~IsDigit(port[i])
          \/ Len(port) > 5
          \/ Len(port) = 5 /\ DigitsValue(port) > 65535
          \/ host = <<>> /\ (at > 0 \/ colon <= Len(hostport))
       THEN None
       ELSE Some(host)

URLRecord(scheme, hostname, path, query) ==
    [protocol |-> Append(scheme, ":"), hostname |-> hostname,
     pathname |-> PercentEncode(path, PathEncodeSet),
     search |-> PercentEncode(query, QueryEncodeSet)]

\* new URL(raw) without a base, for URLs that hold no tab, newline, dot
\* segment or IPv6 address: None is the TypeError of a failed parse.  A URL
\* of a special scheme needs a host; of the others, '//' opens an authority.
ParseURL(raw) ==
    LET schemeEnd == IndexOfAny(raw, { raw[i] : i \in 1..Len(raw) } \ SchemeChars)
        scheme == toLowerCase(Take(raw, schemeEnd - 1))
        rest == Drop(raw, schemeEnd)
        noFragment == Take(rest, IndexOfAny(rest, {"#"}) - 1)
        hier == Take(noFragment, IndexOfAny(noFragment, {"?"}) - 1)
        query == Drop(noFragment, Len(hier) + 1)
        slashes == IF scheme \in SpecialSchemes
                   THEN IndexOfAny(hier, { hier[i] : i \in 1..Len(hier) } \ {"/", "\\"}) - 1
                   ELSE 2
        afterSlashes == Drop(hier, slashes)
        authority == Take(afterSlashes,
                          IndexOfAny(afterSlashes,
                              IF scheme \in SpecialSchemes THEN {"/", "\\"} ELSE {"/"}) - 1)
        path == Drop(afterSlashes, Len(authority))
        host == ParseAuthority(authority)
    IN IF raw = <<>> \/ raw[1] \notin Letters \/ schemeEnd > Len(raw) \/ raw[schemeEnd] # ":"
       THEN None
       ELSE IF scheme \in SpecialSchemes
       THEN IF host = None \/ host = Some(<<>>) THEN None
            ELSE Some(URLRecord(scheme, toLowerCase(host[1]),
                                IF path = <<>> THEN <<"/">> ELSE path, query))
       ELSE IF Len(hier) >= 2 /\ hier[1] = "/" /\ hier[2] = "/"
       THEN IF host = None THEN None ELSE Some(URLRecord(scheme, host[1], path, query))
       ELSE Some(URLRecord(scheme, <<>>, hier, query))

\* str split at each occurrence of the character sep
RECURSIVE Split(_, _)
Split(str, sep) ==
    LET at == IndexOfAny(str, {sep})
    IN IF at > Len(str) THEN <<str>>
       ELSE <<Take(str, at - 1)>> \o Split(Drop(str, at), sep)

PlusToSpace(str) == [i \in 1..Len(str) |-> IF str[i] = "+" THEN " " ELSE str[i]]

\* URLSearchParams: the application/x-www-form-urlencoded parser on the query
SearchParams(search) ==
    LET pieces == SelectSeq(Split(search, "&"), LAMBDA piece : piece # <<>>)
        Tuple(piece) ==
            LET eq == IndexOfAny(piece, {"="})
            IN [name |-> PercentDecode(PlusToSpace(Take(piece, eq - 1))),
                value |-> PercentDecode(PlusToSpace(Drop(piece, eq)))]
    IN [k \in 1..Len(pieces) |-> Tuple(pieces[k])]

\* URLSearchParams.get: the first value under name, or null (None)
ParamsGet(params, name) ==
    LET hits == { k \in 1..Len(params) : params[k].name = name }
    IN IF hits = {} THEN None ELSE Some(params[SetMin(hits)].value)

\* params.get(name) || undefined, and the test `param ? ... : undefined`: the
\* empty string counts as absent
Truthy(param) == IF param = Some(<<>>) THEN None ELSE param

RECURSIVE SkipWhitespace(_)
SkipWhitespace(str) ==
    IF str # <<>> /\ IsWhitespace(Head(str)) THEN SkipWhitespace(Tail(str)) ELSE str

\* parseInt(str, 10): leading whitespace, a sign, then the longest run of
\* digits; NaN when there is none
parseInt(str) ==
    LET body == SkipWhitespace(str)
        signed == body # <<>> /\ Head(body) \in {"+", "-"}
        unsigned == IF signed THEN Tail(body) ELSE body
        run == Take(unsigned, IndexOfAny(unsigned,
                        { unsigned[i] : i \in 1..Len(unsigned) } \ { DigitChars[k] : k \in 1..10 }) - 1)
    IN IF run = <<>> THEN NaN
       ELSE IF signed /\ Head(body) = "-" THEN JsNum(0 - DigitsValue(run))
       ELSE JsNum(DigitsValue(run))

\* `param ? parseInt(param, 10) : undefined`
ParsedParam(param) == IF Truthy(param) = None THEN None ELSE Some(parseInt(param[1]))

\* splitLabel, lines 317-326
splitLabel(labelRaw) ==
    LET cleaned == Trim(labelRaw)
        idx == IndexOfAny(cleaned, {":"}) - 1
        issuer == Trim(Take(cleaned, idx))
        account == Trim(Drop(cleaned, idx + 1))
    IN IF idx < Len(cleaned) /\ idx > 0
       THEN [label |-> IF account # <<>> THEN account ELSE cleaned,
             issuerFromLabel |-> IF issuer # <<>> THEN Some(issuer) ELSE None]
       ELSE [label |-> cleaned, issuerFromLabel |-> None]

\* A ParsedTOTPEntry
Descriptor(label, issuer, secretBytes, algorithm, digits, period) ==
    [label |-> label, issuer |-> issuer, secretBytes |-> secretBytes,
     algorithm |-> algorithm, digits |-> digits, period |-> period]

\* .replace(/^\/+/, '')
RECURSIVE StripSlashes(_)
StripSlashes(str) ==
    IF str # <<>> /\ Head(str) = "/" THEN StripSlashes(Tail(str)) ELSE str

\* parseOtpauthUri, lines 286-310: what follows the checks of scheme and type
ParseTotpUrl(url) ==
    LET labelRaw == decodeURIComponent(StripSlashes(url.pathname))
        params == SearchParams(url.search)
        secretParam == ParamsGet(params, <<"s", "e", "c", "r", "e", "t">>)
        issuerParam == Truthy(ParamsGet(params, <<"i", "s", "s", "u", "e", "r">>))
        secretBytes == base32DecodeToBytes(secretParam[1])
    IN IF labelRaw = None THEN Throw(<<"URI malformed">>)
       ELSE IF Truthy(secretParam) = None THEN Throw(<<"Missing secret parameter">>)
       ELSE IF secretBytes.threw THEN secretBytes
       ELSE Ok(Descriptor(
                splitLabel(labelRaw[1]).label,
                IF issuerParam # None THEN issuerParam
                ELSE splitLabel(labelRaw[1]).issuerFromLabel,
                secretBytes.value,
                normalizeAlg(Truthy(ParamsGet(params, <<"a", "l", "g", "o", "r", "i", "t", "h", "m">>))),
                normalizeDigits(ParsedParam(ParamsGet(params, <<"d", "i", "g", "i", "t", "s">>))),
                normalizePeriod(ParsedParam(ParamsGet(params, <<"p", "e", "r", "i", "o", "d">>)))))

\* Mutant: hotp passes for a supported type
SupportedTypeOrHotp(type) == type \in {<<"t", "o", "t", "p">>, <<"h", "o", "t", "p">>}

\* line 280: type !== 'totp'
SupportedType(type) == type = <<"t", "o", "t", "p">>

\* parseOtpauthUri, lines 267-311
parseOtpauthUri(uri) ==
    LET url == ParseURL(Trim(uri))
    IN IF url = None THEN Throw(<<"Invalid otpauth URI: malformed URL">>)
       ELSE IF url[1].protocol # <<"o", "t", "p", "a", "u", "t", "h", ":">>
       THEN Throw(<<"Invalid otpauth URI: protocol must be otpauth">>)
       ELSE IF ~SupportedType(toLowerCase(url[1].hostname))
       THEN Throw(<<"Only TOTP is supported">>)
       ELSE ParseTotpUrl(url[1])

\* fromManualInput, lines 368-388
fromManualInput(label, issuer, secretBase32, algorithmInput, digitsInput, periodInput) ==
    LET secretBytes == base32DecodeToBytes(secretBase32)
    IN IF secretBytes.threw THEN secretBytes
       ELSE Ok(Descriptor(Trim(label), TrimIssuer(issuer), secretBytes.value,
                          normalizeAlg(algorithmInput), normalizeDigits(digitsInput),
                          normalizePeriod(periodInput)))

-----------------------------------------------------------------------------
(* The texts base32DecodeToBytes, parseOtpauthUri and fromManualInput are    *)
(* called with                                                               *)

MaxChars == 3
MaxBytes == 5
MaxSymbols == 10

\* every string of up to MaxChars characters, over symbols in both cases, a
\* digit the alphabet lacks, padding and a space
CodecChars == {"A", "b", "7", "1", "=", " "}

ShortStrings == UNION { [1..n -> CodecChars] : n \in 0..MaxChars }

\* RFC 4648, section 6: the Base32 text of a byte sequence, padded with '='
\* to a multiple of eight characters or not
base32Encode(bytes, padded) ==
    LET nbits == 8 * Len(bytes)
        nsym == (nbits + 4) \div 5
        bit(j) == IF j > nbits THEN 0 ELSE Bit(bytes[((j - 1) \div 8) + 1], 7 - ((j - 1) % 8))
        sym(k) == 16 * bit(5 * k - 4) + 8 * bit(5 * k - 3) + 4 * bit(5 * k - 2)
                  + 2 * bit(5 * k - 1) + bit(5 * k)
        padLen == IF padded THEN (8 - (nsym % 8)) % 8 ELSE 0
    IN [k \in 1..nsym |-> Base32Alphabet[sym(k) + 1]] \o [i \in 1..padLen |-> "="]

SampleBytes == {0, 90, 255}

\* every sequence of up to MaxBytes sample bytes, every single byte, and
\* MaxBytes bytes that run through all the values
ByteSeqs ==
    UNION { [1..n -> SampleBytes] : n \in 0..MaxBytes }
    \cup { <<b>> : b \in 0..255 }
    \cup { [i \in 1..MaxBytes |-> (b * i) % 256] : b \in 0..255 }

\* the encodings of ByteSeqs, padded or not, in upper and in lower case, each
\* with the bytes it encodes
EncodedInputs ==
    { [kind |-> "base32",
       input |-> IF lower THEN toLowerCase(base32Encode(bytes, padded))
                 ELSE base32Encode(bytes, padded),
       encodes |-> Some(bytes)] :
        bytes \in ByteSeqs, padded \in BOOLEAN, lower \in BOOLEAN }

\* runs of up to MaxSymbols symbols of the alphabet
SymbolStrings ==
    { [i \in 1..n |-> Base32Alphabet[((a * i + b) % 32) + 1]] :
        n \in 0..MaxSymbols, a \in {1, 7, 31}, b \in {0, 5, 31} }

\* whitespace and padding in the middle of, before and after the symbols
SpacedStrings ==
    { <<"J", "B", "S", "W", " ", "Y", "3", "D", "P">>,
      <<"j", "b", "s", "w", "y", "3", "d", "p", "=", "=">>,
      <<" ", "j", "b", "\t", "s", "w", " ", "y", "3", "\n", "d", "p", " ", "=", " ", "=", " ">>,
      <<"J", "B", "S", "W", "Y", "3", "D", "P">>,
      <<"M", "Z", "=", "X", "W", "6">>,
      <<"=", "J", "B", "S", "W", "Y", "3", "D", "P">>,
      <<"J", "B", "S", "W", "-", "Y", "3", "D", "P">>,
      <<"m", "z", "x", "w", "6", "y", "t", "b", "o", "i", "=", "=", "=", "=", "=", "=">>,
      <<"M", "Z", "X", "W", "6", "Y", "T", "B", "O", "I">> }

Base32Inputs ==
    { [kind |-> "base32", input |-> str, encodes |-> None] :
        str \in ShortStrings \cup SymbolStrings \cup SpacedStrings }
    \cup EncodedInputs

\* The arguments of fromManualInput
ManualInputs ==
    { [kind |-> "manual", label |-> <<" ", "a">>, issuer |-> issuer, secretBase32 |-> secret,
       algorithmInput |-> alg, digitsInput |-> digits, periodInput |-> period] :
        issuer \in {None, Some(<<" ">>), Some(<<"I", " ">>)},
        secret \in { <<"J", "B", "S", "W", "Y", "3", "D", "P">>,
                    <<>>,
                    <<"A">>,
                    <<"j", "b", " ", "s", "w", "=">>,
                    <<"J", "B", "1">> },
        alg \in {None, Some(<<"S", "H", "A", "-", "2", "5", "6">>), Some(<<"s", "h", "a", "1">>), Some(<<"M", "D", "5">>)},
        digits \in {None, Some(JsNum(6)), Some(JsNum(8)), Some(JsNum(7)), Some(JsFrac(17, 2)),
                    Some(NaN)},
        period \in {None, Some(JsNum(30)), Some(JsNum(MinPeriod)), Some(JsNum(MaxPeriod)),
                    Some(JsNum(MinPeriod - 1)), Some(JsNum(MaxPeriod + 1)), Some(JsNum(-7)),
                    Some(JsNum(0)), Some(JsFrac(61, 2)), Some(JsFrac(9, 2)), Some(NaN),
                    Some(Infinity)} }

\* The fields of #manualForm when it is submitted: #mLabel and #mSecret are
\* required, #mAlg and #mDigits are selects, #mPeriod is a number input with
\* min 5 and max 300 that may be left empty (lines 101-120)
ManualForms ==
    { [kind |-> "manualForm", mLabel |-> <<" ", "a">>, mIssuer |-> issuer, mSecret |-> secret,
       mAlg |-> alg, mDigits |-> digits, mPeriod |-> period] :
        issuer \in {<<>>, <<" ", "I", " ">>},
        secret \in { <<" ", "J", "B", "S", "W", "Y", "3", "D", "P", " ">>,
                    <<" ">>,
                    <<"A">>,
                    <<"M", "Z", "X", "W", "6", "=", "=", "=">>,
                    <<"J", "B", "1">> },
        alg \in {<<"S", "H", "A", "-", "1">>, <<"S", "H", "A", "-", "2", "5", "6">>},
        digits \in {<<"6">>, <<"8">>},
        period \in {<<>>, <<"5">>, <<"3", "0">>, <<"6", "0">>, <<"3", "0", "0">>} }

\* The otpauth URIs, put together from a scheme, what follows it, a type, a
\* label and a query.  Each URI comes with what it says: the host of its
\* authority (none when the authority is malformed) and the secret, the
\* algorithm and the numbers its query gives, if any.
UriSchemes == { <<"o", "t", "p", "a", "u", "t", "h">>, <<"O", "t", "p", "A", "u", "t", "h">>, <<"h", "t", "t", "p", "s">>, <<>> }

UriSeparators == { <<":", "/", "/">>, <<":">> }

UriTypes ==
    { [text |-> <<"t", "o", "t", "p">>, host |-> Some(<<"t", "o", "t", "p">>)],
      [text |-> <<"T", "O", "T", "P">>, host |-> Some(<<"T", "O", "T", "P">>)],
      [text |-> <<"h", "o", "t", "p">>, host |-> Some(<<"h", "o", "t", "p">>)],
      [text |-> <<>>, host |-> Some(<<>>)],
      [text |-> <<"t", "o", " ", "t", "p">>, host |-> None],
      [text |-> <<"u", "@", "t", "o", "t", "p", ":", "8", "0">>, host |-> Some(<<"t", "o", "t", "p">>)] }

UriLabels == { <<>>, <<"/", "a">>, <<"/", "I", ":", "a">>, <<"/", "a", "%", "2", "0", "b">>, <<"/", "%", "z", "z">> }

UriQueries ==
    { \* no query
      [text |-> <<>>,
       secret |-> None, algorithm |-> None, digits |-> None, period |-> None],
      \* ?secret=JBSWY3DP
      [text |-> << "?", "s", "e", "c", "r", "e", "t", "=", "J", "B", "S", "W", "Y", "3",
                   "D", "P" >>,
       secret |-> Some(<<"J", "B", "S", "W", "Y", "3", "D", "P">>), algorithm |-> None, digits |-> None, period |-> None],
      \* ?secret=jbsw+y3dp==
      [text |-> << "?", "s", "e", "c", "r", "e", "t", "=", "j", "b", "s", "w", "+", "y",
                   "3", "d", "p", "=", "=" >>,
       secret |-> Some(<<"j", "b", "s", "w", " ", "y", "3", "d", "p", "=", "=">>), algorithm |-> None, digits |-> None, period |-> None],
      \* ?secret=
      [text |-> <<"?", "s", "e", "c", "r", "e", "t", "=">>,
       secret |-> Some(<<>>), algorithm |-> None, digits |-> None, period |-> None],
      \* ?issuer=I
      [text |-> <<"?", "i", "s", "s", "u", "e", "r", "=", "I">>,
       secret |-> None, algorithm |-> None, digits |-> None, period |-> None],
      \* ?SECRET=JBSWY3DP
      [text |-> << "?", "S", "E", "C", "R", "E", "T", "=", "J", "B", "S", "W", "Y", "3",
                   "D", "P" >>,
       secret |-> None, algorithm |-> None, digits |-> None, period |-> None],
      \* ?secret=JBSW1
      [text |-> << "?", "s", "e", "c", "r", "e", "t", "=", "J", "B", "S", "W", "1" >>,
       secret |-> Some(<<"J", "B", "S", "W", "1">>), algorithm |-> None, digits |-> None, period |-> None],
      \* ?secret=A
      [text |-> <<"?", "s", "e", "c", "r", "e", "t", "=", "A">>,
       secret |-> Some(<<"A">>), algorithm |-> None, digits |-> None, period |-> None],
      \* ?secret=%3D
      [text |-> <<"?", "s", "e", "c", "r", "e", "t", "=", "%", "3", "D">>,
       secret |-> Some(<<"=">>), algorithm |-> None, digits |-> None, period |-> None],
      \* ?secret=MZXW6&digits=8&period=60&algorithm=SHA256&issuer=I
      [text |-> << "?", "s", "e", "c", "r", "e", "t", "=", "M", "Z", "X", "W", "6", "&",
                   "d", "i", "g", "i", "t", "s", "=", "8", "&", "p", "e", "r", "i", "o",
                   "d", "=", "6", "0", "&", "a", "l", "g", "o", "r", "i", "t", "h", "m",
                   "=", "S", "H", "A", "2", "5", "6", "&", "i", "s", "s", "u", "e", "r",
                   "=", "I" >>,
       secret |-> Some(<<"M", "Z", "X", "W", "6">>), algorithm |-> Some(<<"S", "H", "A", "2", "5", "6">>), digits |-> Some(JsNum(8)), period |-> Some(JsNum(60))],
      \* ?secret=MZXW6&digits=8.5&period=30.9
      [text |-> << "?", "s", "e", "c", "r", "e", "t", "=", "M", "Z", "X", "W", "6", "&",
                   "d", "i", "g", "i", "t", "s", "=", "8", ".", "5", "&", "p", "e", "r",
                   "i", "o", "d", "=", "3", "0", ".", "9" >>,
       secret |-> Some(<<"M", "Z", "X", "W", "6">>), algorithm |-> None, digits |-> Some(JsFrac(17, 2)), period |-> Some(JsFrac(309, 10))],
      \* ?digits=08&secret=MZXW6&period=100&algorithm=sha-1
      [text |-> << "?", "d", "i", "g", "i", "t", "s", "=", "0", "8", "&", "s", "e", "c",
                   "r", "e", "t", "=", "M", "Z", "X", "W", "6", "&", "p", "e", "r", "i",
                   "o", "d", "=", "1", "0", "0", "&", "a", "l", "g", "o", "r", "i", "t",
                   "h", "m", "=", "s", "h", "a", "-", "1" >>,
       secret |-> Some(<<"M", "Z", "X", "W", "6">>), algorithm |-> Some(<<"s", "h", "a", "-", "1">>), digits |-> Some(JsNum(8)), period |-> Some(JsNum(100))],
      \* ?secret=MZXW6&digits=abc&period=abc&algorithm=MD5
      [text |-> << "?", "s", "e", "c", "r", "e", "t", "=", "M", "Z", "X", "W", "6", "&",
                   "d", "i", "g", "i", "t", "s", "=", "a", "b", "c", "&", "p", "e", "r",
                   "i", "o", "d", "=", "a", "b", "c", "&", "a", "l", "g", "o", "r", "i",
                   "t", "h", "m", "=", "M", "D", "5" >>,
       secret |-> Some(<<"M", "Z", "X", "W", "6">>), algorithm |-> Some(<<"M", "D", "5">>), digits |-> Some(NaN), period |-> Some(NaN)],
      \* ?secret=MZXW6&digits=7&period=-7
      [text |-> << "?", "s", "e", "c", "r", "e", "t", "=", "M", "Z", "X", "W", "6", "&",
                   "d", "i", "g", "i", "t", "s", "=", "7", "&", "p", "e", "r", "i", "o",
                   "d", "=", "-", "7" >>,
       secret |-> Some(<<"M", "Z", "X", "W", "6">>), algorithm |-> None, digits |-> Some(JsNum(7)), period |-> Some(JsNum(-7))],
      \* ?secret=MZXW6&digits=&period=1000
      [text |-> << "?", "s", "e", "c", "r", "e", "t", "=", "M", "Z", "X", "W", "6", "&",
                   "d", "i", "g", "i", "t", "s", "=", "&", "p", "e", "r", "i", "o", "d",
                   "=", "1", "0", "0", "0" >>,
       secret |-> Some(<<"M", "Z", "X", "W", "6">>), algorithm |-> None, digits |-> None, period |-> Some(JsNum(1000))],
      \* ?secret=MZXW6&secret=1#x
      [text |-> << "?", "s", "e", "c", "r", "e", "t", "=", "M", "Z", "X", "W", "6", "&",
                   "s", "e", "c", "r", "e", "t", "=", "1", "#", "x" >>,
       secret |-> Some(<<"M", "Z", "X", "W", "6">>), algorithm |-> None, digits |-> None, period |-> None],
      \* ?secret=MZ%58W6&period=4
      [text |-> << "?", "s", "e", "c", "r", "e", "t", "=", "M", "Z", "%", "5", "8", "W",
                   "6", "&", "p", "e", "r", "i", "o", "d", "=", "4" >>,
       secret |-> Some(<<"M", "Z", "X", "W", "6">>), algorithm |-> None, digits |-> None, period |-> Some(JsNum(4))] }

UriInputs ==
    { [kind |-> "uri", uri |-> scheme \o sep \o type.text \o label \o query.text,
       scheme |-> scheme, sep |-> sep, host |-> type.host,
       secret |-> query.secret, algorithm |-> query.algorithm,
       digits |-> query.digits, period |-> query.period] :
        scheme \in UriSchemes, sep \in UriSeparators, type \in UriTypes,
        label \in UriLabels, query \in UriQueries }
    \cup
    { \* ' otpauth://totp/a?secret=JBSWY3DP '
      [kind |-> "uri", uri |-> << " ", "o", "t", "p", "a", "u", "t", "h", ":", "/", "/", "t",
                                "o", "t", "p", "/", "a", "?", "s", "e", "c", "r", "e", "t",
                                "=", "J", "B", "S", "W", "Y", "3", "D", "P", " " >>,
       scheme |-> <<"o", "t", "p", "a", "u", "t", "h">>, sep |-> <<":", "/", "/">>, host |-> Some(<<"t", "o", "t", "p">>),
       secret |-> Some(<<"J", "B", "S", "W", "Y", "3", "D", "P">>), algorithm |-> None, digits |-> None, period |-> None],
      \* 'not a uri'
      [kind |-> "uri", uri |-> <<"n", "o", "t", " ", "a", " ", "u", "r", "i">>,
       scheme |-> <<>>, sep |-> <<>>, host |-> None,
       secret |-> None, algorithm |-> None, digits |-> None, period |-> None],
      \* 'otpauth://totp/a?secret=JBSWY3DP&digits=8abc'
      [kind |-> "uri", uri |-> << "o", "t", "p", "a", "u", "t", "h", ":", "/", "/", "t", "o",
                                "t", "p", "/", "a", "?", "s", "e", "c", "r", "e", "t", "=",
                                "J", "B", "S", "W", "Y", "3", "D", "P", "&", "d", "i", "g",
                                "i", "t", "s", "=", "8", "a", "b", "c" >>,
       scheme |-> <<"o", "t", "p", "a", "u", "t", "h">>, sep |-> <<":", "/", "/">>, host |-> Some(<<"t", "o", "t", "p">>),
       secret |-> Some(<<"J", "B", "S", "W", "Y", "3", "D", "P">>), algorithm |-> None, digits |-> Some(NaN), period |-> None] }

CodecInputs == Base32Inputs \cup ManualInputs \cup ManualForms \cup UriInputs

-----------------------------------------------------------------------------
\* The timestamps (ms) and periods (s) the functions are called with
Timestamps == { sec * 1000 + ms : sec \in (-MaxSeconds)..MaxSeconds, ms \in {0, 999} }

Periods == {MinPeriod, 7, 30, MaxPeriod}

\* HMAC outputs of 20 (SHA-1) and 32 (SHA-256) bytes
MacBytes == {0, 1, 128, 255}

Macs ==
    { [i \in 1..n |-> IF i = n THEN last ELSE IF i % 2 = 0 THEN a ELSE b] :
        n \in {20, 32}, a \in MacBytes, b \in MacBytes, last \in {0, 15, 240, 250, 255} }

TotpIdle == [kind |-> "none", ts |-> 0, period |-> 30, mac |-> <<>>, digits |-> 6]

\* Steps up to 2^53, the step -1 before step 0, and numbers between steps
StepInputs ==
    { [kind |-> "step", n |-> [hi |-> hi, lo |-> lo, half |-> half]] :
        hi \in {0, 1, 2, 255, 256, 257, 65535, 65536, 2 ^ 24 - 1, 2 ^ 24, 2 ^ 29 - 1},
        lo \in {0, 1, 255, 256, 65535, 65536, 12345678, 2 ^ 24 - 1}, half \in {0, 1} }
    \cup { [kind |-> "step", n |-> [hi |-> -1, lo |-> lo, half |-> 0]] :
              lo \in {2 ^ 24 - 1, 2 ^ 24 - 2, 0} }

TotpInputs ==
    { [TotpIdle EXCEPT !.kind = "time", !.ts = t, !.period = per] :
        t \in Timestamps, per \in Periods }
    \cup { [TotpIdle EXCEPT !.kind = "mac", !.mac = m, !.digits = d] :
              m \in Macs, d \in {6, 8} }
    \cup StepInputs

Returned(fn, value) == Some([fn |-> fn, value |-> value])

\* The string of a sequence of decimal digits
Chars(digits) == [i \in 1..Len(digits) |-> DigitChars[digits[i] + 1]]

\* "12345678901234567890" in ASCII
RfcSecret == [i \in 1..20 |-> 48 + (i % 10)]

\* The options generateTOTPWindow is called with; `now` is what Date.now()
\* would give
WindowOpts(secret, period, digits, algorithm, timestamp) ==
    [secret |-> secret, period |-> period, digits |-> digits,
     algorithm |-> algorithm, timestamp |-> timestamp]

WindowInputs ==
    { [kind |-> "window", opts |-> o, now |-> 301000] : o \in
        { WindowOpts(RfcSecret, Some(JsNum(30)), Some(JsNum(6)),
                     Some(<<"S", "H", "A", "-", "1">>), Some(59000)),
          WindowOpts(RfcSecret, None, Some(JsNum(8)),
                     Some(<<"s", "h", "a", "2", "5", "6">>), Some(-1000)),
          WindowOpts(<<72, 105>>, Some(JsFrac(15, 2)), Some(JsNum(7)),
                     Some(<<"M", "D", "5">>), Some(0)),
          WindowOpts(<<72, 105>>, Some(JsNum(1000)), None, None, None),
          WindowOpts(RfcSecret, Some(NaN), Some(JsNum(8)),
                     Some(<<"S", "H", "A", "1">>), Some(89999)),
          WindowOpts(<<72, 105>>, Some(JsNum(-3)), Some(JsNum(6)),
                     Some(<<"S", "H", "A", "-", "2", "5", "6">>), Some(-5001)) } }

\* generateTOTPForStep on the secret and the counters of RFC 4226, Appendix D
RfcCounters == 0..9

ForStepInputs ==
    { [kind |-> "forStep", secret |-> RfcSecret, step |-> c, digits |-> 6,
       algorithm |-> "SHA-1"] : c \in RfcCounters }

\* No totp.ts function is under call
TotpInit ==
    /\ totpIn = TotpIdle
    /\ totpOut = None
    /\ totpRun = None

DbInit ==
    /\ secrets = EmptyStore
    /\ clock = 0
    /\ tasks = [p \in Procs |-> IdleTask]
    /\ base = EmptyStore
    /\ calls = <<>>
    /\ insertSeq = <<>>
    /\ nops = 0

\* A scan callback between two awaits; old marks, for the history variables,
\* a callback of an interval that Start Camera has since replaced
ScanIdle == [pc |-> "idle", text |-> "none", keyBytes |-> 0, key |-> 0, iv |-> 0, rec |-> None,
             old |-> FALSE]

\* The QR dialog's variables as declared, lines 259-261
ScanInit ==
    /\ stream = None
    /\ qrTimer = None
    /\ qrFound = FALSE
    /\ qrLive = {}
    /\ scans = [c \in 0..MaxScans |-> ScanIdle]
    /\ qrStored = 0
    /\ qrLate = FALSE

\* The page once its script has run: init() is awaiting the service worker
PageInit ==
    /\ ScanInit
    /\ meta = None
    /\ sessionKey = None
    /\ cache = <<>>
    /\ cards = {}
    /\ tickTimer = None
    /\ intervals = {}
    /\ handlers = [h \in HandlerNames |-> IF h = "init" THEN InitCalled ELSE IdleH]
    /\ storageOk = TRUE
    /\ dbBlocked = FALSE
    /\ nextKey = 1
    /\ nextIv = 1
    /\ keysWritten = {}
    /\ wiping = FALSE
    /\ readInWipe = FALSE

Init == DbInit /\ PageInit /\ TotpInit

\* One caller: a call starts when the one before it has returned
SeqStart(c) ==
    /\ UNCHANGED <<appVars, totpVars, scanVars>>
    /\ Quiescent
    /\ nops < MaxOps
    /\ Start(1, c)

\* Two callers: a call may start while another is between transactions
RaceStart(p, c) ==
    /\ UNCHANGED <<appVars, totpVars, scanVars>>
    /\ nops < MaxRaceOps
    /\ Start(p, c)

Step(p) ==
    /\ UNCHANGED <<appVars, totpVars, scanVars>>
    /\ \/ AddList(p)
       \/ AddPut(p)
       \/ UpdateGet(p)
       \/ UpdatePut(p)
       \/ DeleteTx(p)
       \/ ReorderTx(p)
       \/ ListGet(p)

Next ==
    \/ \E c \in DbCalls : SeqStart(c)
    \/ \E p \in Procs : Step(p)
    \/ Tick

NextRace ==
    \/ \E p \in Procs, c \in DbCalls : RaceStart(p, c)
    \/ \E p \in Procs : Step(p)
    \/ Tick

Spec == Init /\ [][Next]_vars

SpecRace == Init /\ [][NextRace]_vars


-----------------------------------------------------------------------------
(* main.ts handlers.  A step is the completion of what the handler awaits   *)
(* together with the synchronous code up to its next await.                 *)

\* init's catch block, lines 63-68: refreshList() is called again
InitCatch(t, storage, decrypt) ==
    [t EXCEPT !.pc = "refresh_list", !.inCatch = TRUE, !.idx = 0,
              !.storageFailed = t.storageFailed \/ storage,
              !.decFailed = t.decFailed \/ decrypt]

\* A storage rejection inside ensureSessionKey: init catches it, a form
\* handler calls ensureSessionKey outside its try block
KeyFailure(h) ==
    IF h = "init" THEN InitCatch([handlers[h] EXCEPT !.keyBytes = 0], TRUE, FALSE)
    ELSE [IdleH EXCEPT !.pc = "rejected"]

\* storeEntry with an encryption that draws no new iv
EncryptingSameIv(t, key) == [t EXCEPT !.pc = "add_list", !.key = key, !.iv = 1]

\* storeEntry, line 427: encryptAESGCM is called with the session key
Encrypting(t, key) == [t EXCEPT !.pc = "add_list", !.key = key, !.iv = nextIv]

\* init, line 62: unlock() -> ensureSessionKey(); with a key present unlock
\* goes on to decryptedCache.clear() and listSecrets()
InitSw ==
    /\ ~InSyncBlock
    /\ handlers["init"].pc = "init_sw"
    /\ IF sessionKey # None
       THEN /\ cache' = <<>>
            /\ handlers' = RewindTick([handlers EXCEPT !["init"].pc = "unlock_list"])
       ELSE /\ handlers' = [handlers EXCEPT !["init"].pc = "esk_get"]
            /\ UNCHANGED cache
    /\ UNCHANGED <<secrets, clock, dbVars, totpVars, scanVars, meta, sessionKey, cards,
                   tickTimer, intervals, storageOk, dbBlocked, nextKey, nextIv, keysWritten,
                   wiping, readInWipe>>

\* A form is submitted, lines 207-227 and 233-247: the handler awaits
\* ensureSessionKey(), then storeEntry() encrypts.  No form is submitted
\* while a wipe is under way.
SubmitStart ==
    /\ ~InSyncBlock
    /\ ~Running("submit")
    /\ ~Running("wipe")
    /\ nextIv <= MaxIvs
    /\ IF sessionKey = None
       THEN /\ handlers' = [handlers EXCEPT !["submit"] = [IdleH EXCEPT !.pc = "esk_get"]]
            /\ UNCHANGED nextIv
       ELSE /\ handlers' = [handlers EXCEPT !["submit"] = Encrypting(IdleH, sessionKey[1])]
            /\ nextIv' = nextIv + 1
    /\ UNCHANGED <<secrets, clock, dbVars, totpVars, scanVars, meta, sessionKey, cache,
                   cards, tickTimer, intervals, storageOk, dbBlocked, nextKey, keysWritten,
                   wiping, readInWipe>>

\* ensureSessionKey, lines 376-384: metaGet resolves; load, or draw a new key
EskGet(h) ==
    /\ ~InSyncBlock
    /\ handlers[h].pc = "esk_get"
    /\ ~dbBlocked
    /\ IF ~storageOk
       THEN /\ handlers' = [handlers EXCEPT ![h] = KeyFailure(h)]
            /\ UNCHANGED nextKey
       ELSE IF meta # None
       THEN /\ handlers' = [handlers EXCEPT ![h].pc = "esk_import", ![h].keyBytes = meta[1]]
            /\ UNCHANGED nextKey
       ELSE /\ nextKey <= MaxKeys
            /\ handlers' = [handlers EXCEPT ![h].pc = "esk_put", ![h].keyBytes = nextKey]
            /\ nextKey' = nextKey + 1
    /\ UNCHANGED <<secrets, clock, dbVars, totpVars, scanVars, meta, sessionKey, cache,
                   cards, tickTimer, intervals, storageOk, dbBlocked, nextIv, keysWritten,
                   wiping, readInWipe>>

\* ensureSessionKey, line 383: metaPut resolves
EskPut(h) ==
    /\ ~InSyncBlock
    /\ handlers[h].pc = "esk_put"
    /\ ~dbBlocked
    /\ IF ~storageOk
       THEN /\ handlers' = [handlers EXCEPT ![h] = KeyFailure(h)]
            /\ UNCHANGED <<meta, keysWritten>>
       ELSE /\ meta' = Some(handlers[h].keyBytes)
            /\ keysWritten' = keysWritten \cup {handlers[h].keyBytes}
            /\ handlers' = [handlers EXCEPT ![h].pc = "esk_import"]
    /\ UNCHANGED <<secrets, clock, dbVars, totpVars, scanVars, sessionKey, cache, cards,
                   tickTimer, intervals, storageOk, dbBlocked, nextKey, nextIv, wiping,
                   readInWipe>>

\* ensureSessionKey, lines 385-391: importKey resolves and sessionKey is set;
\* unlock then clears the cache and lists, a form handler calls storeEntry
EskImport(h) ==
    /\ ~InSyncBlock
    /\ handlers[h].pc = "esk_import"
    /\ sessionKey' = Some(handlers[h].keyBytes)
    /\ IF h = "init"
       THEN /\ cache' = <<>>
            /\ handlers' = RewindTick([handlers EXCEPT ![h].pc = "unlock_list"])
            /\ UNCHANGED nextIv
       ELSE /\ handlers' = [handlers EXCEPT ![h] = Encrypting(handlers[h], handlers[h].keyBytes)]
            /\ nextIv' = nextIv + 1
            /\ UNCHANGED cache
    /\ UNCHANGED <<secrets, clock, dbVars, totpVars, scanVars, meta, cards, tickTimer,
                   intervals, storageOk, dbBlocked, nextKey, keysWritten, wiping,
                   readInWipe>>

\* unlock's loop, line 400: decryptAESGCM(sessionKey!, ...) for records[idx];
\* with sessionKey null the call rejects and init catches it
DecryptNext(t, idx) ==
    IF sessionKey = None THEN InitCatch(t, FALSE, FALSE)
    ELSE [t EXCEPT !.pc = "unlock_dec", !.idx = idx, !.key = sessionKey[1]]

\* unlock, lines 398-400: listSecrets resolves
UnlockList ==
    /\ ~InSyncBlock
    /\ handlers["init"].pc = "unlock_list"
    /\ ~dbBlocked
    /\ LET t == handlers["init"]
           records == listSecrets(secrets)
       IN handlers' = [handlers EXCEPT !["init"] =
              IF ~storageOk THEN InitCatch(t, TRUE, FALSE)
              ELSE IF records = <<>> THEN [t EXCEPT !.pc = "refresh_list"]
              ELSE DecryptNext([t EXCEPT !.records = records], 1)]
    /\ UNCHANGED <<secrets, clock, dbVars, totpVars, scanVars, meta, sessionKey, cache,
                   cards, tickTimer, intervals, storageOk, dbBlocked, nextKey, nextIv,
                   keysWritten, wiping, readInWipe>>

\* unlock, lines 400-410: one decryptAESGCM resolves or rejects
UnlockDec ==
    /\ ~InSyncBlock
    /\ handlers["init"].pc = "unlock_dec"
    /\ LET t == handlers["init"]
           r == t.records[t.idx]
           secretBytes == decryptAESGCM(t.key, r.iv, r.encSecret)
       IN IF secretBytes = None
          THEN /\ handlers' = [handlers EXCEPT !["init"] = InitCatch(t, FALSE, TRUE)]
               /\ UNCHANGED cache
          ELSE /\ cache' = CacheSet(cache, CacheEntry(r, secretBytes[1]))
               /\ handlers' = [handlers EXCEPT !["init"] =
                      IF t.idx = Len(t.records) THEN [t EXCEPT !.pc = "refresh_list", !.idx = 0]
                      ELSE DecryptNext(t, t.idx + 1)]
    /\ UNCHANGED <<secrets, clock, dbVars, totpVars, scanVars, meta, sessionKey, cards,
                   tickTimer, intervals, storageOk, dbBlocked, nextKey, nextIv, keysWritten,
                   wiping, readInWipe>>

\* addSecret inside storeEntry: listSecrets resolves, the record gets its id;
\* a rejection is caught by the form handler
SubmitAddList ==
    /\ ~InSyncBlock
    /\ handlers["submit"].pc = "add_list"
    /\ ~dbBlocked
    /\ LET t == handlers["submit"]
           input == StoreInput(FormEntry, encryptAESGCM(t.key, FormEntry.secretBytes, t.iv))
       IN IF ~storageOk
          THEN handlers' = [handlers EXCEPT !["submit"] =
                   [IdleH EXCEPT !.pc = "done", !.storageFailed = TRUE]]
          ELSE \E id \in AppIds :
                 handlers' = [handlers EXCEPT !["submit"].pc = "add_put",
                     !["submit"].rec = Some(NewRecord(input, id, clock, listSecrets(secrets)))]
    /\ UNCHANGED <<secrets, clock, dbVars, totpVars, scanVars, meta, sessionKey, cache,
                   cards, tickTimer, intervals, storageOk, dbBlocked, nextKey, nextIv,
                   keysWritten, wiping, readInWipe>>

\* addSecret's store.add resolves; storeEntry caches the entry, lines 437-445,
\* and the handler calls refreshList
SubmitAddPut ==
    /\ ~InSyncBlock
    /\ handlers["submit"].pc = "add_put"
    /\ ~dbBlocked
    /\ LET rec == handlers["submit"].rec[1] IN
         IF storageOk /\ StoreAddOk(secrets, rec)
         THEN /\ secrets' = StorePut(secrets, rec)
              /\ cache' = CacheSet(cache, CacheEntry(rec, FormEntry.secretBytes))
              /\ handlers' = [handlers EXCEPT !["submit"] =
                     [IdleH EXCEPT !.pc = "refresh_list"]]
         ELSE /\ handlers' = [handlers EXCEPT !["submit"] =
                     [IdleH EXCEPT !.pc = "done", !.storageFailed = TRUE]]
              /\ UNCHANGED <<secrets, cache>>
    /\ UNCHANGED <<clock, dbVars, totpVars, scanVars, meta, sessionKey, cards, tickTimer,
                   intervals, storageOk, dbBlocked, nextKey, nextIv, keysWritten, wiping,
                   readInWipe>>

\* What follows refreshList: init starts the ticker, lines 68 and 412
AfterRefresh(h) ==
    /\ IF h = "init" THEN startTicker ELSE UNCHANGED <<tickTimer, intervals>>

\* refreshList, lines 462-474: listSecrets resolves, every cached entry of the
\* list has its secretBytes read by generateTOTPWindow
RefreshList(h) ==
    /\ ~InSyncBlock
    /\ handlers[h].pc = "refresh_list"
    /\ ~dbBlocked
    /\ LET t == handlers[h]
           all == CachedInList(secrets, cache)
       IN IF ~storageOk
          THEN /\ handlers' = [handlers EXCEPT ![h] =
                      IF h = "init" /\ ~t.inCatch THEN InitCatch(t, TRUE, FALSE)
                      ELSE IF h = "init" THEN [t EXCEPT !.pc = "rejected"]
                      ELSE [IdleH EXCEPT !.pc = "done", !.storageFailed = TRUE]]
               /\ UNCHANGED <<cards, tickTimer, intervals, readInWipe>>
          ELSE IF all = <<>>
          THEN /\ cards' = {}
               /\ handlers' = [handlers EXCEPT ![h].pc = "done"]
               /\ AfterRefresh(h)
               /\ UNCHANGED readInWipe
          ELSE /\ handlers' = [handlers EXCEPT ![h].pc = "refresh_render", ![h].all = all]
               /\ readInWipe' = (readInWipe \/ wiping)
               /\ UNCHANGED <<cards, tickTimer, intervals>>
    /\ UNCHANGED <<secrets, clock, dbVars, totpVars, scanVars, meta, sessionKey, cache,
                   storageOk, dbBlocked, nextKey, nextIv, keysWritten, wiping>>

\* refreshList, lines 475-479: the windows resolve and the cards are rendered
RefreshRender(h) ==
    /\ ~InSyncBlock
    /\ handlers[h].pc = "refresh_render"
    /\ cards' = { handlers[h].all[k] : k \in 1..Len(handlers[h].all) }
    /\ handlers' = [handlers EXCEPT ![h].pc = "done", ![h].all = <<>>]
    /\ AfterRefresh(h)
    /\ UNCHANGED <<secrets, clock, dbVars, totpVars, scanVars, meta, sessionKey, cache,
                   storageOk, dbBlocked, nextKey, nextIv, keysWritten, wiping, readInWipe>>

\* An interval fires and updateCodes starts, lines 484-492: the first cached
\* entry has its secretBytes read
TickFire ==
    /\ ~InSyncBlock
    /\ intervals # {}
    /\ ~Running("tick")
    /\ IF cache = <<>>
       THEN /\ handlers' = [handlers EXCEPT !["tick"] = [IdleH EXCEPT !.pc = "done"]]
            /\ UNCHANGED readInWipe
       ELSE /\ handlers' = [handlers EXCEPT !["tick"] =
                   [IdleH EXCEPT !.pc = "tick_wait", !.idx = 1, !.cur = cache[1].id]]
            /\ readInWipe' = (readInWipe \/ wiping)
    /\ UNCHANGED <<secrets, clock, dbVars, totpVars, scanVars, meta, sessionKey, cache,
                   cards, tickTimer, intervals, storageOk, dbBlocked, nextKey, nextIv,
                   keysWritten, wiping>>

\* updateCodes, lines 493-505 and the next turn of its loop: the card of the
\* entry is looked up (a missing card throws), then the next entry is read
TickResume ==
    /\ ~InSyncBlock
    /\ handlers["tick"].pc = "tick_wait"
    /\ LET t == handlers["tick"] IN
         IF t.cur \notin cards
         THEN /\ handlers' = [handlers EXCEPT !["tick"] = [IdleH EXCEPT !.pc = "rejected"]]
              /\ UNCHANGED readInWipe
         ELSE IF t.idx < Len(cache)
         THEN /\ handlers' = [handlers EXCEPT !["tick"].idx = t.idx + 1,
                                              !["tick"].cur = cache[t.idx + 1].id]
              /\ readInWipe' = (readInWipe \/ wiping)
         ELSE /\ handlers' = [handlers EXCEPT !["tick"] = [IdleH EXCEPT !.pc = "done"]]
              /\ UNCHANGED readInWipe
    /\ UNCHANGED <<secrets, clock, dbVars, totpVars, scanVars, meta, sessionKey, cache,
                   cards, tickTimer, intervals, storageOk, dbBlocked, nextKey, nextIv,
                   keysWritten, wiping>>

\* clearAppData, line 639: the confirmed click stops the ticker
WipeStart ==
    /\ ~InSyncBlock
    /\ ~Running("wipe")
    /\ handlers["wipe"].pc = "idle"
    /\ stopTicker
    /\ handlers' = [handlers EXCEPT !["wipe"].pc = "wipe_zero"]
    /\ UNCHANGED <<secrets, clock, dbVars, totpVars, scanVars, meta, sessionKey, cache,
                   cards, storageOk, dbBlocked, nextKey, nextIv, keysWritten, wiping,
                   readInWipe>>

\* clearAppData, lines 641-643: every cached secretBytes is filled with zeros
WipeZero ==
    /\ handlers["wipe"].pc = "wipe_zero"
    /\ cache' = Zeroize(cache)
    /\ wiping' = TRUE
    /\ handlers' = [handlers EXCEPT !["wipe"].pc = "wipe_forget"]
    /\ UNCHANGED <<secrets, clock, dbVars, totpVars, scanVars, meta, sessionKey, cards,
                   tickTimer, intervals, storageOk, dbBlocked, nextKey, nextIv, keysWritten,
                   readInWipe>>

\* clearAppData, lines 644-650: the cache is cleared, sessionKey dropped and
\* clearAll() called
WipeForget ==
    /\ handlers["wipe"].pc = "wipe_forget"
    /\ cache' = <<>>
    /\ sessionKey' = None
    /\ handlers' = RewindTick([handlers EXCEPT !["wipe"].pc = "wipe_clear",
                                               !["wipe"].pending = {"secrets", "meta"}])
    /\ UNCHANGED <<secrets, clock, dbVars, totpVars, scanVars, meta, cards, tickTimer,
                   intervals, storageOk, dbBlocked, nextKey, nextIv, keysWritten, wiping,
                   readInWipe>>

\* clearAll, lines 292-306: one of its two clear() transactions completes; a
\* rejection is swallowed by clearAppData
WipeClear(store) ==
    /\ ~InSyncBlock
    /\ handlers["wipe"].pc = "wipe_clear"
    /\ store \in handlers["wipe"].pending
    /\ ~dbBlocked
    /\ IF ~storageOk
       THEN /\ handlers' = [handlers EXCEPT !["wipe"].pc = "wipe_drop", !["wipe"].pending = {}]
            /\ UNCHANGED <<secrets, meta, keysWritten>>
       ELSE /\ handlers' = [handlers EXCEPT
                   !["wipe"].pending = handlers["wipe"].pending \ {store},
                   !["wipe"].pc = IF handlers["wipe"].pending = {store}
                                  THEN "wipe_drop" ELSE "wipe_clear"]
            /\ secrets' = IF store = "secrets" THEN EmptyStore ELSE secrets
            /\ meta' = IF store = "meta" THEN None ELSE meta
            /\ keysWritten' = IF store = "meta" THEN {} ELSE keysWritten
    /\ UNCHANGED <<clock, dbVars, totpVars, scanVars, sessionKey, cache, cards, tickTimer,
                   intervals, storageOk, dbBlocked, nextKey, nextIv, wiping, readInWipe>>

\* clearAppData, lines 654-661: deleteDatabase either completes, or is blocked
\* by the connections openDB never closes and completes when the page unloads
WipeDrop ==
    /\ ~InSyncBlock
    /\ handlers["wipe"].pc = "wipe_drop"
    /\ handlers' = [handlers EXCEPT !["wipe"].pc = "wipe_finish"]
    /\ \/ /\ secrets' = EmptyStore
          /\ meta' = None
          /\ keysWritten' = {}
          /\ UNCHANGED dbBlocked
       \/ /\ dbBlocked' = TRUE
          /\ UNCHANGED <<secrets, meta, keysWritten>>
    /\ UNCHANGED <<clock, dbVars, totpVars, scanVars, sessionKey, cache, cards, tickTimer,
                   intervals, storageOk, nextKey, nextIv, wiping, readInWipe>>

\* The page loads again: the session state is gone, storage stays, init() runs
PageLoad ==
    /\ secrets' = IF dbBlocked THEN EmptyStore ELSE secrets
    /\ meta' = IF dbBlocked THEN None ELSE meta
    /\ keysWritten' = IF dbBlocked THEN {} ELSE keysWritten
    /\ dbBlocked' = FALSE
    /\ sessionKey' = None
    /\ cache' = <<>>
    /\ cards' = {}
    /\ tickTimer' = None
    /\ intervals' = {}
    /\ handlers' = [h \in HandlerNames |-> IF h = "init" THEN InitCalled ELSE IdleH]
    /\ wiping' = FALSE
    /\ readInWipe' = FALSE
    /\ storageOk' = TRUE
    /\ UNCHANGED <<clock, dbVars, totpVars, scanVars, nextKey, nextIv>>

\* clearAppData, lines 663-696: the remaining cleanup, then location.reload()
WipeFinish ==
    /\ ~InSyncBlock
    /\ handlers["wipe"].pc = "wipe_finish"
    /\ PageLoad

\* The user reloads or reopens the page
UserReload ==
    /\ ~InSyncBlock
    /\ ~Running("wipe")
    /\ PageLoad

\* IndexedDB starts rejecting requests, for as long as the page lives
StorageFails ==
    /\ ~InSyncBlock
    /\ storageOk
    /\ storageOk' = FALSE
    /\ UNCHANGED <<secrets, clock, dbVars, totpVars, scanVars, meta, sessionKey, cache,
                   cards, tickTimer, intervals, handlers, dbBlocked, nextKey, nextIv,
                   keysWritten, wiping, readInWipe>>

NextApp ==
    \/ InitSw
    \/ SubmitStart
    \/ \E h \in {"init", "submit"} : EskGet(h)
    \/ \E h \in {"init", "submit"} : EskPut(h)
    \/ \E h \in {"init", "submit"} : EskImport(h)
    \/ UnlockList
    \/ UnlockDec
    \/ SubmitAddList
    \/ SubmitAddPut
    \/ \E h \in {"init", "submit"} : RefreshList(h)
    \/ \E h \in {"init", "submit"} : RefreshRender(h)
    \/ TickFire
    \/ TickResume
    \/ WipeStart
    \/ WipeZero
    \/ WipeForget
    \/ \E store \in {"secrets", "meta"} : WipeClear(store)
    \/ WipeDrop
    \/ WipeFinish
    \/ UserReload
    \/ StorageFails

SpecApp == Init /\ [][NextApp]_vars

-----------------------------------------------------------------------------
(* totp.ts functions, called on arguments drawn when the behaviour starts *)

InitTotp ==
    /\ DbInit
    /\ PageInit
    /\ totpIn \in TotpInputs
    /\ totpOut = None
    /\ totpRun = None

\* generateTOTPWindow, line 207: stepAt(ts, period)
CallStepAt ==
    /\ totpIn.kind = "time"
    /\ totpOut = None
    /\ totpOut' = Returned("stepAt", stepAt(totpIn.ts, totpIn.period))
    /\ UNCHANGED <<secrets, clock, dbVars, appVars, scanVars, totpIn, totpRun>>

\* generateTOTPWindow, line 219: secondsRemaining(ts, period)
CallSecondsRemaining ==
    /\ totpIn.kind = "time"
    /\ totpOut = None
    /\ totpOut' = Returned("secondsRemaining", secondsRemaining(totpIn.ts, totpIn.period))
    /\ UNCHANGED <<secrets, clock, dbVars, appVars, scanVars, totpIn, totpRun>>

\* generateTOTPForStep, lines 183-184: the code of the HMAC output
CallCode ==
    /\ totpIn.kind = "mac"
    /\ totpOut = None
    /\ totpOut' = Returned("code", padDigits(dynamicTruncate(totpIn.mac), totpIn.digits))
    /\ UNCHANGED <<secrets, clock, dbVars, appVars, scanVars, totpIn, totpRun>>

\* generateTOTPForStep, line 181: numberTo8ByteBE(step)
CallNumberTo8ByteBE ==
    /\ totpIn.kind = "step"
    /\ totpOut = None
    /\ totpOut' = Returned("numberTo8ByteBE", numberTo8ByteBE(totpIn.n))
    /\ UNCHANGED <<secrets, clock, dbVars, appVars, scanVars, totpIn, totpRun>>

NextTotp ==
    \/ CallStepAt
    \/ CallSecondsRemaining
    \/ CallCode
    \/ CallNumberTo8ByteBE

SpecTotp == InitTotp /\ [][NextTotp]_vars

-----------------------------------------------------------------------------
(* totp.ts: generateTOTPForStep and generateTOTPWindow, await by await *)

InitWindow ==
    /\ DbInit
    /\ PageInit
    /\ totpIn \in WindowInputs \cup ForStepInputs
    /\ totpOut = None
    /\ totpRun = None

\* generateTOTPForStep up to its first await: the counter bytes, the copies
\* hmac makes of key and data, and importKey called
ForStep(secret, step, digits, algorithm) ==
    [pc |-> "importKey", keyBuffer |-> secret, dataBuffer |-> numberTo8ByteBE(Wide(step)),
     digits |-> digits, algorithm |-> algorithm, code |-> None]

\* Mutant: a code takes the first free place, in the order of completion
SettleInArrivalOrder(parts, i, code) ==
    LET slot == CHOOSE k \in 1..Len(parts) :
                    /\ parts[k].code = None
                    /\ \A j \in 1..(k - 1) : parts[j].code # None
    IN [[parts EXCEPT ![i].pc = "done"] EXCEPT ![slot].code = Some(code)]

\* The promise of the i-th generateTOTPForStep is fulfilled with its code:
\* Promise.all keeps the place of each promise
Settle(parts, i, code) ==
    [parts EXCEPT ![i].pc = "done", ![i].code = Some(code)]

\* generateTOTPWindow, lines 203-213: normalization, the step, and the three
\* generateTOTPForStep calls, each run to its first await
CallWindow ==
    /\ totpIn.kind = "window"
    /\ totpOut = None
    /\ totpRun = None
    /\ LET opts == totpIn.opts
           period == normalizePeriod(opts.period)
           digits == normalizeDigits(opts.digits)
           alg == normalizeAlg(opts.algorithm)
           ts == IF opts.timestamp # None THEN opts.timestamp[1] ELSE totpIn.now
           step == stepAt(ts, period)
       IN totpRun' = Some([fn |-> "generateTOTPWindow", ts |-> ts, step |-> step,
                           period |-> period, digits |-> digits, algorithm |-> alg,
                           settled |-> <<>>,
                           parts |-> << ForStep(opts.secret, step - 1, digits, alg),
                                        ForStep(opts.secret, step, digits, alg),
                                        ForStep(opts.secret, step + 1, digits, alg) >>])
    /\ UNCHANGED <<secrets, clock, dbVars, appVars, scanVars, totpIn, totpOut>>

\* generateTOTPForStep called on its own
CallForStep ==
    /\ totpIn.kind = "forStep"
    /\ totpOut = None
    /\ totpRun = None
    /\ totpRun' = Some([fn |-> "generateTOTPForStep", settled |-> <<>>,
                        parts |-> << ForStep(totpIn.secret, totpIn.step, totpIn.digits,
                                             totpIn.algorithm) >>])
    /\ UNCHANGED <<secrets, clock, dbVars, appVars, scanVars, totpIn, totpOut>>

\* hmac, line 141: importKey resolves and sign is called
ImportKeyDone(i) ==
    /\ totpRun # None
    /\ i \in 1..Len(totpRun[1].parts)
    /\ totpRun[1].parts[i].pc = "importKey"
    /\ totpRun' = Some([totpRun[1] EXCEPT !.parts[i].pc = "sign"])
    /\ UNCHANGED <<secrets, clock, dbVars, appVars, scanVars, totpIn, totpOut>>

\* hmac, line 148, and generateTOTPForStep, lines 183-184: sign resolves
\* with the MAC, which is truncated and padded into the code
SignDone(i) ==
    /\ totpRun # None
    /\ i \in 1..Len(totpRun[1].parts)
    /\ totpRun[1].parts[i].pc = "sign"
    /\ LET part == totpRun[1].parts[i]
           mac == hmac(part.keyBuffer, part.dataBuffer, part.algorithm)
           code == padDigits(dynamicTruncate(mac), part.digits)
       IN totpRun' = Some([totpRun[1] EXCEPT !.parts = Settle(@, i, code),
                                             !.settled = Append(@, i)])
    /\ UNCHANGED <<secrets, clock, dbVars, appVars, scanVars, totpIn, totpOut>>

\* generateTOTPWindow, lines 215-224: all three promises are fulfilled
WindowReturn ==
    /\ totpRun # None
    /\ totpOut = None
    /\ totpRun[1].fn = "generateTOTPWindow"
    /\ \A i \in 1..3 : totpRun[1].parts[i].pc = "done"
    /\ LET run == totpRun[1]
       IN totpOut' = Returned("generateTOTPWindow",
                        [prev |-> run.parts[1].code[1],
                         current |-> run.parts[2].code[1],
                         next |-> run.parts[3].code[1],
                         remainingSeconds |-> secondsRemaining(run.ts, run.period),
                         step |-> run.step, period |-> run.period,
                         digits |-> run.digits, algorithm |-> run.algorithm])
    /\ UNCHANGED <<secrets, clock, dbVars, appVars, scanVars, totpIn, totpRun>>

\* generateTOTPForStep, line 184: the code is returned
ForStepReturn ==
    /\ totpRun # None
    /\ totpOut = None
    /\ totpRun[1].fn = "generateTOTPForStep"
    /\ totpRun[1].parts[1].pc = "done"
    /\ totpOut' = Returned("generateTOTPForStep", totpRun[1].parts[1].code[1])
    /\ UNCHANGED <<secrets, clock, dbVars, appVars, scanVars, totpIn, totpRun>>

NextWindow ==
    \/ CallWindow
    \/ CallForStep
    \/ \E i \in 1..3 : ImportKeyDone(i)
    \/ \E i \in 1..3 : SignDone(i)
    \/ WindowReturn
    \/ ForStepReturn

SpecWindow == InitWindow /\ [][NextWindow]_vars

-----------------------------------------------------------------------------
(* totp.ts: base32DecodeToBytes, fromManualInput and parseOtpauthUri on the  *)
(* texts above, and main.ts: the two forms that store what these return.     *)
(* One form is submitted and nothing else runs, so the awaits of the         *)
(* handler, taken one by one in SpecApp, have nothing to interleave with.    *)

InitCodec ==
    /\ DbInit
    /\ PageInit
    /\ totpIn \in CodecInputs
    /\ totpOut = None
    /\ totpRun = None

CallBase32Decode ==
    /\ totpIn.kind = "base32"
    /\ totpOut = None
    /\ totpOut' = Returned("base32DecodeToBytes", base32DecodeToBytes(totpIn.input))
    /\ UNCHANGED <<secrets, clock, dbVars, appVars, scanVars, totpIn, totpRun>>

CallFromManualInput ==
    /\ totpIn.kind = "manual"
    /\ totpOut = None
    /\ totpOut' = Returned("fromManualInput",
                      fromManualInput(totpIn.label, totpIn.issuer, totpIn.secretBase32,
                          totpIn.algorithmInput, totpIn.digitsInput, totpIn.periodInput))
    /\ UNCHANGED <<secrets, clock, dbVars, appVars, scanVars, totpIn, totpRun>>

\* main.ts, lines 209-211 and 235-237: if (!sessionKey) await ensureSessionKey(),
\* lines 376-391: the stored key is loaded, or a new one drawn and stored
EnsureSessionKey ==
    IF sessionKey # None
    THEN UNCHANGED <<meta, sessionKey, nextKey, keysWritten>>
    ELSE IF meta # None
    THEN /\ sessionKey' = meta
         /\ UNCHANGED <<meta, nextKey, keysWritten>>
    ELSE /\ meta' = Some(nextKey)
         /\ sessionKey' = Some(nextKey)
         /\ keysWritten' = keysWritten \cup {nextKey}
         /\ nextKey' = nextKey + 1

\* What the handler goes on to: storeEntry(entry), or the catch and its alert
AfterParse(outcome) ==
    IF outcome.threw THEN None ELSE Some([fn |-> "storeEntry", entry |-> outcome.value])

\* #manualForm is submitted, lines 207-223
SubmitManual ==
    /\ totpIn.kind = "manualForm"
    /\ totpOut = None
    /\ totpRun = None
    /\ EnsureSessionKey
    /\ LET issuer == IF Trim(totpIn.mIssuer) = <<>> THEN None ELSE Some(Trim(totpIn.mIssuer))
           entry == fromManualInput(Trim(totpIn.mLabel), issuer, Trim(totpIn.mSecret),
                        Some(totpIn.mAlg), Some(parseInt(totpIn.mDigits)),
                        Some(parseInt(totpIn.mPeriod)))
       IN /\ totpOut' = Returned("fromManualInput", entry)
          /\ totpRun' = AfterParse(entry)
    /\ UNCHANGED <<secrets, clock, dbVars, scanVars, totpIn, cache, cards, tickTimer, intervals, handlers,
                   storageOk, dbBlocked, nextIv, wiping, readInWipe>>

\* #uriForm is submitted, lines 233-241
SubmitUri ==
    /\ totpIn.kind = "uri"
    /\ totpOut = None
    /\ totpRun = None
    /\ EnsureSessionKey
    /\ LET parsed == parseOtpauthUri(Trim(totpIn.uri))
       IN /\ totpOut' = Returned("parseOtpauthUri", parsed)
          /\ totpRun' = AfterParse(parsed)
    /\ UNCHANGED <<secrets, clock, dbVars, scanVars, totpIn, cache, cards, tickTimer, intervals, handlers,
                   storageOk, dbBlocked, nextIv, wiping, readInWipe>>

\* storeEntry, lines 418-446: the secret is encrypted, addSecret stores the
\* record under a fresh id and the entry is cached
StoreEntry ==
    /\ totpRun # None
    /\ totpRun[1].fn = "storeEntry"
    /\ \E id \in AppIds :
         LET entry == totpRun[1].entry
             enc == encryptAESGCM(sessionKey[1], entry.secretBytes, nextIv)
             rec == NewRecord(StoreInput(entry, enc), id, clock, listSecrets(secrets))
         IN /\ StoreAddOk(secrets, rec)
            /\ secrets' = StorePut(secrets, rec)
            /\ cache' = CacheSet(cache, CacheEntry(rec, entry.secretBytes))
    /\ nextIv' = nextIv + 1
    /\ totpRun' = None
    /\ UNCHANGED <<clock, dbVars, scanVars, totpIn, totpOut, meta, sessionKey, cards, tickTimer,
                   intervals, handlers, storageOk, dbBlocked, nextKey, keysWritten, wiping,
                   readInWipe>>

NextCodec ==
    \/ CallBase32Decode
    \/ CallFromManualInput
    \/ SubmitManual
    \/ SubmitUri
    \/ StoreEntry

SpecCodec == InitCodec /\ [][NextCodec]_vars

-----------------------------------------------------------------------------
(* crypto.ts: encryptAESGCM and decryptAESGCM on bytes.  The key is the 32   *)
(* bytes importKey was given; a plaintext is the bytes of a secret.          *)

AeadKeys == { Zeros(32), [i \in 1..32 |-> (7 * i) % 256] }

\* what randomBytes(IV_BYTES) may give
AeadIvs == { Zeros(12), [i \in 1..12 |-> 16 * i + 1] }

\* no bytes, the five bytes of JBSWY3DP, and a secret of more than one block
AeadPlaintexts == { <<>>, <<72, 101, 108, 108, 111>>, RfcSecret }

AeadInputs == [kind : {"aead"}, key : AeadKeys, plaintext : AeadPlaintexts]

\* the bytes with bit k inverted, bit 0 the lowest bit of the first byte
FlipBit(bytes, k) == [bytes EXCEPT ![(k \div 8) + 1] = XorByte(@, 2 ^ (k % 8))]

\* What a caller holding the key and the result enc of encryptAESGCM may pass
\* to decryptAESGCM: the same, another key, another iv, or the ciphertext
\* with one of its bits inverted
DecryptCalls(key, enc) ==
    { [key |-> key, iv |-> enc.iv, ciphertext |-> enc.ciphertext] }
    \cup { [key |-> k, iv |-> enc.iv, ciphertext |-> enc.ciphertext] : k \in AeadKeys \ {key} }
    \cup { [key |-> key, iv |-> v, ciphertext |-> enc.ciphertext] : v \in AeadIvs \ {enc.iv} }
    \cup { [key |-> key, iv |-> enc.iv, ciphertext |-> FlipBit(enc.ciphertext, k)] :
             k \in 0..(8 * Len(enc.ciphertext) - 1) }

\* the promise of crypto.subtle.decrypt, awaited
Awaited(pt) == IF pt = None THEN Throw(<<"OperationError">>) ELSE Ok(pt[1])

InitAead ==
    /\ DbInit
    /\ PageInit
    /\ totpIn \in AeadInputs
    /\ totpOut = None
    /\ totpRun = None

CallEncryptAESGCM ==
    /\ totpIn.kind = "aead"
    /\ totpOut = None
    /\ \E iv \in AeadIvs :
          totpOut' = Returned("encryptAESGCM",
                         [ciphertext |-> SubtleEncrypt(totpIn.key, iv, totpIn.plaintext),
                          iv |-> iv])
    /\ UNCHANGED <<secrets, clock, dbVars, appVars, scanVars, totpIn, totpRun>>

CallDecryptAESGCM ==
    /\ totpIn.kind = "aead"
    /\ totpOut # None
    /\ totpOut[1].fn = "encryptAESGCM"
    /\ \E call \in DecryptCalls(totpIn.key, totpOut[1].value) :
          totpOut' = Returned("decryptAESGCM",
                         [encrypted |-> totpOut[1].value, key |-> call.key, iv |-> call.iv,
                          ciphertext |-> call.ciphertext,
                          outcome |-> Awaited(SubtleDecrypt(call.key, call.iv, call.ciphertext))])
    /\ UNCHANGED <<secrets, clock, dbVars, appVars, scanVars, totpIn, totpRun>>

NextAead ==
    \/ CallEncryptAESGCM
    \/ CallDecryptAESGCM

SpecAead == InitAead /\ [][NextAead]_vars

-----------------------------------------------------------------------------
(* main.ts: the form and card handlers once unlock has succeeded: a form     *)
(* submit (storeEntry), and the Rename, Delete, Up and Down buttons of a     *)
(* card.  Each handler is taken await by await; refreshList, whose awaits    *)
(* SpecApp takes one by one, is one step here.  Time does not pass.          *)

CardHandlers == {"submit", "rename", "delete", "move"}

\* alone, was: history, whether the handler began with none in flight, and
\* the store and the cache it then found
CardIdle == [pc |-> "idle", id |-> 0, label |-> <<>>, dir |-> "none", iv |-> 0, rec |-> None,
             batch |-> <<>>, failedAt |-> "none", alone |-> FALSE,
             was |-> [secrets |-> EmptyStore, cache |-> <<>>]]

Busy(h) == handlers[h].pc \notin {"idle", "done", "failed"}

\* With solo, a handler begins only when none is in flight; without, when
\* fewer than MaxBusy are
MayBegin(h, solo) ==
    /\ ~Busy(h)
    /\ Cardinality({ g \in CardHandlers : Busy(g) }) < (IF solo THEN 1 ELSE MaxBusy)

\* The handler h begins as t; what finished handlers left behind is dropped.
\* The history was is kept for handlers that run with none other in flight.
Begin(h, t, solo) ==
    handlers' = [g \in CardHandlers |->
                    IF g = h
                    THEN IF solo
                         THEN [t EXCEPT !.alone = TRUE,
                                        !.was = [secrets |-> secrets, cache |-> cache]]
                         ELSE t
                    ELSE IF Busy(g) THEN handlers[g] ELSE CardIdle]

\* The handler h ends; what it held is kept as history when it ran alone
Finished(h, pc, failedAt) ==
    IF handlers[h].alone
    THEN [handlers EXCEPT ![h].pc = pc, ![h].failedAt = failedAt, ![h].rec = None,
                          ![h].batch = <<>>]
    ELSE [handlers EXCEPT ![h] = CardIdle]

\* The record a form submit of FormEntry leaves, with the iv and order given
CardRecord(id, iv, order) ==
    [NewRecord(StoreInput(FormEntry, encryptAESGCM(1, FormEntry.secretBytes, iv)), id, 0, <<>>)
        EXCEPT !.order = order]

\* Stores that submits, one after the other, leave: up to MaxStored records
\* with ids 1..k and the orders 1..k in any arrangement
CardStores ==
    UNION { { [id \in 1..k |-> CardRecord(id, id, f[id])] :
                f \in { g \in [1..k -> 1..k] : \A a, b \in 1..k : g[a] = g[b] => a = b } } :
            k \in 0..MaxStored }

\* unlock, lines 398-410: the cache of the records listed
UnlockedCache(store) ==
    [k \in 1..Len(listSecrets(store)) |->
        CacheEntry(listSecrets(store)[k],
                   decryptAESGCM(1, listSecrets(store)[k].iv, listSecrets(store)[k].encSecret)[1])]

\* The page when init() has returned from a successful unlock of the store
InitCards ==
    /\ TotpInit
    /\ ScanInit
    /\ secrets \in CardStores
    /\ clock = 0
    /\ tasks = [p \in Procs |-> IdleTask]
    /\ base = EmptyStore
    /\ calls = <<>>
    /\ insertSeq = <<>>
    /\ nops = 0
    /\ meta = Some(1)
    /\ sessionKey = Some(1)
    /\ cache = UnlockedCache(secrets)
    /\ cards = DOMAIN secrets
    /\ tickTimer = Some(1)
    /\ intervals = {1}
    /\ handlers = [h \in CardHandlers |-> CardIdle]
    /\ storageOk = TRUE
    /\ dbBlocked = FALSE
    /\ nextKey = 2
    /\ nextIv = Cardinality(DOMAIN secrets) + 1
    /\ keysWritten = {1}
    /\ wiping = FALSE
    /\ readInWipe = FALSE

\* A form is submitted, lines 207-227 and 233-247: sessionKey is set, so
\* storeEntry goes to encryptAESGCM and then to addSecret
CardSubmit(solo) ==
    /\ MayBegin("submit", solo)
    /\ nextIv <= MaxCardIds
    /\ Begin("submit", [CardIdle EXCEPT !.pc = "add_list", !.iv = nextIv], solo)
    /\ nextIv' = nextIv + 1
    /\ UNCHANGED <<secrets, clock, dbVars, totpVars, scanVars, meta, sessionKey, cache,
                   cards, tickTimer, intervals, storageOk, dbBlocked, nextKey, keysWritten,
                   wiping, readInWipe>>

\* addSecret inside storeEntry: listSecrets resolves and the record gets its
\* id; generateId never repeats, the nth id drawn is n as for the ivs
CardAddList ==
    /\ handlers["submit"].pc = "add_list"
    /\ LET ok == storageOk IN
         IF ~ok THEN handlers' = Finished("submit", "failed", "addSecret")
         ELSE LET id == handlers["submit"].iv
                  enc == encryptAESGCM(sessionKey[1], FormEntry.secretBytes,
                                       handlers["submit"].iv)
                  rec == NewRecord(StoreInput(FormEntry, enc), id, clock, listSecrets(secrets))
              IN handlers' = [handlers EXCEPT !["submit"].pc = "add_put",
                                              !["submit"].id = id,
                                              !["submit"].rec = Some(rec)]
    /\ UNCHANGED <<secrets, clock, dbVars, totpVars, scanVars, meta, sessionKey, cache,
                   cards, tickTimer, intervals, storageOk, dbBlocked, nextKey, nextIv,
                   keysWritten, wiping, readInWipe>>

\* Mutant: storeEntry caching the entry before addSecret has resolved
CardAddPutCacheFirst ==
    /\ handlers["submit"].pc = "add_put"
    /\ cache' = CacheSet(cache, CacheEntry(handlers["submit"].rec[1], FormEntry.secretBytes))
    /\ LET ok == storageOk IN
         IF ok /\ StoreAddOk(secrets, handlers["submit"].rec[1])
         THEN /\ secrets' = StorePut(secrets, handlers["submit"].rec[1])
              /\ handlers' = [handlers EXCEPT !["submit"].pc = "refresh"]
         ELSE /\ handlers' = Finished("submit", "failed", "addSecret")
              /\ UNCHANGED secrets
    /\ UNCHANGED <<clock, dbVars, totpVars, scanVars, meta, sessionKey, cards, tickTimer,
                   intervals, storageOk, dbBlocked, nextKey, nextIv, keysWritten, wiping,
                   readInWipe>>

\* addSecret's store.add resolves; storeEntry caches the entry, lines 437-445
CardAddPut ==
    /\ handlers["submit"].pc = "add_put"
    /\ LET ok == storageOk IN
         IF ok /\ StoreAddOk(secrets, handlers["submit"].rec[1])
         THEN /\ secrets' = StorePut(secrets, handlers["submit"].rec[1])
              /\ cache' = CacheSet(cache, CacheEntry(handlers["submit"].rec[1],
                                                     FormEntry.secretBytes))
              /\ handlers' = [handlers EXCEPT !["submit"].pc = "refresh"]
         ELSE /\ handlers' = Finished("submit", "failed", "addSecret")
              /\ UNCHANGED <<secrets, cache>>
    /\ UNCHANGED <<clock, dbVars, totpVars, scanVars, meta, sessionKey, cards, tickTimer,
                   intervals, storageOk, dbBlocked, nextKey, nextIv, keysWritten, wiping,
                   readInWipe>>

\* refreshList, lines 460-480: the cards of the cached entries of the list
CardRefresh(h) ==
    /\ handlers[h].pc = "refresh"
    /\ LET ok == storageOk IN
         IF ok
         THEN /\ cards' = { CachedInList(secrets, cache)[k] :
                              k \in 1..Len(CachedInList(secrets, cache)) }
              /\ handlers' = Finished(h, "done", "none")
         ELSE /\ handlers' = Finished(h, "failed", "listSecrets")
              /\ UNCHANGED cards
    /\ UNCHANGED <<secrets, clock, dbVars, totpVars, scanVars, meta, sessionKey, cache,
                   tickTimer, intervals, storageOk, dbBlocked, nextKey, nextIv, keysWritten,
                   wiping, readInWipe>>

\* What the user types into prompt('New label', cur.label); None is Cancel
PromptAnswers == { None, Some(<<" ">>), Some(<<" ", "b", " ">>) }

\* The Rename button of a card, lines 561-568: decryptedCache.get(id)! is
\* undefined for a card whose entry is gone, and cur.label then throws
CardRenameClick(solo) ==
    /\ MayBegin("rename", solo)
    /\ sessionKey # None
    /\ \E id \in cards, answer \in PromptAnswers :
         IF id \notin CacheIds(cache)
         THEN Begin("rename", [CardIdle EXCEPT !.pc = "failed", !.id = id,
                                               !.failedAt = "TypeError"], solo)
         ELSE IF answer = None \/ Trim(answer[1]) = <<>>
         THEN Begin("rename", [CardIdle EXCEPT !.pc = "done", !.id = id], solo)
         ELSE Begin("rename", [CardIdle EXCEPT !.pc = "update_get", !.id = id,
                                               !.label = Trim(answer[1])], solo)
    /\ UNCHANGED <<secrets, clock, dbVars, totpVars, scanVars, meta, sessionKey, cache,
                   cards, tickTimer, intervals, storageOk, dbBlocked, nextKey, nextIv,
                   keysWritten, wiping, readInWipe>>

\* updateSecret({ id, label }), lines 218-232: getSecret resolves
CardUpdateGet ==
    /\ handlers["rename"].pc = "update_get"
    /\ LET ok == storageOk IN
         LET t == handlers["rename"]
             existing == getSecret(secrets, t.id)
             input == [id |-> t.id, label |-> Some(t.label), issuer |-> None, alg |-> None,
                       digits |-> None, period |-> None, encSecret |-> None, iv |-> None,
                       order |-> None]
         IN IF ~ok \/ existing = None
            THEN handlers' = Finished("rename", "failed", "updateSecret")
            ELSE handlers' = [handlers EXCEPT !["rename"].pc = "update_put",
                                 !["rename"].rec = Some(MergeUpdate(existing[1], input, clock))]
    /\ UNCHANGED <<secrets, clock, dbVars, totpVars, scanVars, meta, sessionKey, cache,
                   cards, tickTimer, intervals, storageOk, dbBlocked, nextKey, nextIv,
                   keysWritten, wiping, readInWipe>>

\* cur.label = nextLabel: cur is the entry the handler read at the click,
\* in the cache still unless it was deleted since
Relabel(c, id, label) ==
    [k \in 1..Len(c) |-> IF c[k].id = id THEN [c[k] EXCEPT !.label = label] ELSE c[k]]

\* updateSecret's store.put resolves, lines 234-241; then cur.label = nextLabel
CardUpdatePut ==
    /\ handlers["rename"].pc = "update_put"
    /\ LET ok == storageOk IN
         IF ok
         THEN /\ secrets' = StorePut(secrets, handlers["rename"].rec[1])
              /\ cache' = Relabel(cache, handlers["rename"].id, handlers["rename"].label)
              /\ handlers' = [handlers EXCEPT !["rename"].pc = "refresh",
                                              !["rename"].rec = None]
         ELSE /\ handlers' = Finished("rename", "failed", "updateSecret")
              /\ UNCHANGED <<secrets, cache>>
    /\ UNCHANGED <<clock, dbVars, totpVars, scanVars, meta, sessionKey, cards, tickTimer,
                   intervals, storageOk, dbBlocked, nextKey, nextIv, keysWritten, wiping,
                   readInWipe>>

\* The Delete button of a card, lines 575-579, with the answer to confirm()
CardDeleteClick(solo) ==
    /\ MayBegin("delete", solo)
    /\ \E id \in cards, confirmed \in BOOLEAN :
         Begin("delete", [CardIdle EXCEPT !.pc = IF confirmed THEN "delete_tx" ELSE "done",
                                          !.id = id], solo)
    /\ UNCHANGED <<secrets, clock, dbVars, totpVars, scanVars, meta, sessionKey, cache,
                   cards, tickTimer, intervals, storageOk, dbBlocked, nextKey, nextIv,
                   keysWritten, wiping, readInWipe>>

\* deleteSecret resolves; the entry is zeroed and deleted, lines 580-582
CardDeleteTx ==
    /\ handlers["delete"].pc = "delete_tx"
    /\ LET ok == storageOk IN
         IF ok
         THEN /\ secrets' = StoreDelete(secrets, handlers["delete"].id)
              /\ cache' = SelectSeq(cache, LAMBDA e : e.id # handlers["delete"].id)
              /\ handlers' = [handlers EXCEPT !["delete"].pc = "refresh"]
         ELSE /\ handlers' = Finished("delete", "failed", "deleteSecret")
              /\ UNCHANGED <<secrets, cache>>
    /\ UNCHANGED <<clock, dbVars, totpVars, scanVars, meta, sessionKey, cards, tickTimer,
                   intervals, storageOk, dbBlocked, nextKey, nextIv, keysWritten, wiping,
                   readInWipe>>

\* The Up or Down button of a card, lines 601-614: moveSecret(id, dir)
CardMoveClick(solo) ==
    /\ MayBegin("move", solo)
    /\ \E id \in cards, dir \in {"up", "down"} :
         Begin("move", [CardIdle EXCEPT !.pc = "move_list", !.id = id, !.dir = dir], solo)
    /\ UNCHANGED <<secrets, clock, dbVars, totpVars, scanVars, meta, sessionKey, cache,
                   cards, tickTimer, intervals, storageOk, dbBlocked, nextKey, nextIv,
                   keysWritten, wiping, readInWipe>>

\* records.findIndex((r) => r.id === id), from 1, 0 for none
FindIndex(records, id) ==
    IF \E k \in 1..Len(records) : records[k].id = id
    THEN CHOOSE k \in 1..Len(records) :
            records[k].id = id /\ \A j \in 1..(k - 1) : records[j].id # id
    ELSE 0

\* Mutant: the neighbour's order is copied and the record keeps its own
SwappedOrdersOneWay(records, idx, swapIdx) ==
    [k \in 1..Len(records) |->
        Pair(records[k].id, IF k = swapIdx THEN records[idx].order ELSE records[k].order)]

\* moveSecret, lines 594-597: newOrder with the two orders exchanged
SwappedOrders(records, idx, swapIdx) ==
    [k \in 1..Len(records) |->
        Pair(records[k].id,
             IF k = idx THEN records[swapIdx].order
             ELSE IF k = swapIdx THEN records[idx].order
             ELSE records[k].order)]

\* moveSecret, lines 588-597: listSecrets resolves; return, or the batch
CardMoveList ==
    /\ handlers["move"].pc = "move_list"
    /\ LET ok == storageOk IN
         LET t == handlers["move"]
             records == listSecrets(secrets)
             idx == FindIndex(records, t.id)
             swapIdx == IF t.dir = "down" THEN idx + 1 ELSE idx - 1
         IN IF ~ok THEN handlers' = Finished("move", "failed", "listSecrets")
            ELSE IF idx = 0 \/ (t.dir = "up" /\ idx = 1)
                    \/ (t.dir = "down" /\ idx = Len(records))
            THEN handlers' = Finished("move", "done", "none")
            ELSE handlers' = [handlers EXCEPT !["move"].pc = "reorder_tx",
                                 !["move"].batch = SwappedOrders(records, idx, swapIdx)]
    /\ UNCHANGED <<secrets, clock, dbVars, totpVars, scanVars, meta, sessionKey, cache,
                   cards, tickTimer, intervals, storageOk, dbBlocked, nextKey, nextIv,
                   keysWritten, wiping, readInWipe>>

\* reorderSecrets(newOrder) resolves, line 598
CardReorderTx ==
    /\ handlers["move"].pc = "reorder_tx"
    /\ LET ok == storageOk IN
         IF ok
         THEN /\ secrets' = ReorderAll(secrets, handlers["move"].batch, clock)
              /\ handlers' = [handlers EXCEPT !["move"].pc = "refresh", !["move"].batch = <<>>]
         ELSE /\ handlers' = Finished("move", "failed", "reorderSecrets")
              /\ UNCHANGED secrets
    /\ UNCHANGED <<clock, dbVars, totpVars, scanVars, meta, sessionKey, cache, cards,
                   tickTimer, intervals, storageOk, dbBlocked, nextKey, nextIv, keysWritten,
                   wiping, readInWipe>>

\* IndexedDB starts or stops rejecting requests
CardStorage(ok) ==
    /\ storageOk # ok
    /\ storageOk' = ok
    /\ UNCHANGED <<secrets, clock, dbVars, totpVars, scanVars, meta, sessionKey, cache,
                   cards, tickTimer, intervals, handlers, dbBlocked, nextKey, nextIv,
                   keysWritten, wiping, readInWipe>>

\* Handlers begin whenever the user acts, others in flight or not; storage
\* works
NextCards ==
    \/ CardSubmit(FALSE)
    \/ CardRenameClick(FALSE)
    \/ CardDeleteClick(FALSE)
    \/ CardMoveClick(FALSE)
    \/ CardAddList
    \/ CardAddPut
    \/ CardUpdateGet
    \/ CardUpdatePut
    \/ CardDeleteTx
    \/ CardMoveList
    \/ CardReorderTx
    \/ \E h \in CardHandlers : CardRefresh(h)

SpecCards == InitCards /\ [][NextCards]_vars

\* The user acts when the handler before has finished; storage may fail
NextCardsAlone ==
    \/ CardSubmit(TRUE)
    \/ CardRenameClick(TRUE)
    \/ CardDeleteClick(TRUE)
    \/ CardMoveClick(TRUE)
    \/ CardAddList
    \/ CardAddPut
    \/ CardUpdateGet
    \/ CardUpdatePut
    \/ CardDeleteTx
    \/ CardMoveList
    \/ CardReorderTx
    \/ \E h \in CardHandlers : CardRefresh(h)
    \/ \E ok \in BOOLEAN : CardStorage(ok)

SpecCardsAlone == InitCards /\ [][NextCardsAlone]_vars

\* A fresh vault: add, delete and move handlers only, in flight together
InitCardsEmpty == InitCards /\ secrets = EmptyStore

NextCardsOrder ==
    \/ CardSubmit(FALSE)
    \/ CardDeleteClick(FALSE)
    \/ CardMoveClick(FALSE)
    \/ CardAddList
    \/ CardAddPut
    \/ CardDeleteTx
    \/ CardMoveList
    \/ CardReorderTx
    \/ \E h \in CardHandlers \ {"rename"} : CardRefresh(h)

SpecCardsOrder == InitCardsEmpty /\ [][NextCardsOrder]_vars

-----------------------------------------------------------------------------
(* main.ts: the QR dialog, lines 252-323.  Start Camera sets an interval    *)
(* whose callback decodes a frame every 500 ms; the callback gives way at   *)
(* each await while the interval goes on firing.  The camera is started     *)
(* when it is not running.                                                  *)

Callbacks == 1..MaxScans

\* an interval fires into the first free slot
FreeSlot == SetMin({ c \in Callbacks : scans[c].pc = "idle" })

\* what jsQR finds in the frame: nothing, some text, an otpauth URI
Frames == {"none", "invalid", "valid"}

\* qrStartBtn click, line 263: getUserMedia is requested
ScanStartClick ==
    /\ scans[0].pc = "idle"
    /\ qrTimer = None
    /\ scans' = [scans EXCEPT ![0].pc = "media"]
    /\ UNCHANGED <<secrets, clock, dbVars, appVars, totpVars, stream, qrTimer, qrFound, qrLive,
                   qrStored, qrLate>>

\* lines 265-267: getUserMedia resolves with the stream, or rejects and the
\* handler alerts
ScanMedia ==
    /\ scans[0].pc = "media"
    /\ \E granted \in BOOLEAN :
         IF granted
         THEN /\ stream' = Some(1)
              /\ scans' = [scans EXCEPT ![0].pc = "play"]
         ELSE /\ scans' = [scans EXCEPT ![0].pc = "idle"]
              /\ UNCHANGED stream
    /\ UNCHANGED <<secrets, clock, dbVars, appVars, totpVars, qrTimer, qrFound, qrLive,
                   qrStored, qrLate>>

\* line 272: qrTimer = window.setInterval(...)
SetScanInterval ==
    LET id == SetMin({ n \in 1..(Cardinality(qrLive) + 1) : n \notin qrLive })
    IN /\ qrTimer' = Some(id)
       /\ qrLive' = qrLive \cup {id}

\* lines 267-272: video.play() resolves, qrFound is reset and the interval set
ScanPlay ==
    /\ scans[0].pc = "play"
    /\ qrFound' = FALSE
    /\ SetScanInterval
    /\ qrStored' = 0
    /\ qrLate' = FALSE
    /\ scans' = [c \in 0..MaxScans |->
                    IF c = 0 \/ scans[c].pc = "idle" THEN ScanIdle
                    ELSE [scans[c] EXCEPT !.old = TRUE]]
    /\ UNCHANGED <<secrets, clock, dbVars, appVars, totpVars, stream>>

\* stopCamera, lines 308-317
stopCamera ==
    /\ qrLive' = IF qrTimer # None THEN qrLive \ {qrTimer[1]} ELSE qrLive
    /\ qrTimer' = None
    /\ stream' = None

\* qrStopBtn or qrCloseBtn click, lines 319-323
ScanStop ==
    /\ stopCamera
    /\ UNCHANGED <<secrets, clock, dbVars, appVars, totpVars, qrFound, scans, qrStored, qrLate>>

\* lines 285-293: parseOtpauthUri throws and the callback returns, or
\* qrFound is set and storeEntry encrypts under the session key
Parsed(c, text, key) ==
    IF text = "invalid"
    THEN /\ scans' = [scans EXCEPT ![c] = ScanIdle]
         /\ UNCHANGED <<qrFound, nextIv>>
    ELSE /\ nextIv <= MaxCardIds
         /\ qrFound' = TRUE
         /\ scans' = [scans EXCEPT ![c] = [ScanIdle EXCEPT !.pc = "add_list", !.key = key,
                                                           !.iv = nextIv,
                                                           !.old = scans[c].old]]
         /\ nextIv' = nextIv + 1

\* the interval fires, lines 272-284: the callback returns when qrFound is
\* set or the frame holds no code, awaits ensureSessionKey() when sessionKey
\* is null, and parses otherwise
ScanTick ==
    /\ qrLive # {}
    /\ \E c \in Callbacks : scans[c].pc = "idle"
    /\ \E frame \in Frames :
         IF qrFound \/ frame = "none"
         THEN UNCHANGED <<scans, qrFound, nextIv>>
         ELSE IF sessionKey = None
         THEN /\ scans' = [scans EXCEPT ![FreeSlot] = [ScanIdle EXCEPT !.pc = "esk_get",
                                                                       !.text = frame]]
              /\ UNCHANGED <<qrFound, nextIv>>
         ELSE Parsed(FreeSlot, frame, sessionKey[1])
    /\ UNCHANGED <<secrets, clock, dbVars, totpVars, meta, sessionKey, cache, cards, tickTimer,
                   intervals, handlers, storageOk, dbBlocked, nextKey, keysWritten, wiping,
                   readInWipe, stream, qrTimer, qrLive, qrStored, qrLate>>

\* ensureSessionKey, lines 376-384: metaGet resolves; load, or draw a new
\* key.  A rejection is caught at line 300 and the callback ends.
ScanEskGet(c) ==
    /\ scans[c].pc = "esk_get"
    /\ IF ~storageOk
       THEN /\ scans' = [scans EXCEPT ![c] = ScanIdle]
            /\ UNCHANGED nextKey
       ELSE IF meta # None
       THEN /\ scans' = [scans EXCEPT ![c].pc = "esk_import", ![c].keyBytes = meta[1]]
            /\ UNCHANGED nextKey
       ELSE /\ nextKey <= MaxKeys
            /\ scans' = [scans EXCEPT ![c].pc = "esk_put", ![c].keyBytes = nextKey]
            /\ nextKey' = nextKey + 1
    /\ UNCHANGED <<secrets, clock, dbVars, totpVars, meta, sessionKey, cache, cards, tickTimer,
                   intervals, handlers, storageOk, dbBlocked, nextIv, keysWritten, wiping,
                   readInWipe, stream, qrTimer, qrFound, qrLive, qrStored, qrLate>>

\* ensureSessionKey, line 383: metaPut resolves
ScanEskPut(c) ==
    /\ scans[c].pc = "esk_put"
    /\ IF ~storageOk
       THEN /\ scans' = [scans EXCEPT ![c] = ScanIdle]
            /\ UNCHANGED <<meta, keysWritten>>
       ELSE /\ meta' = Some(scans[c].keyBytes)
            /\ keysWritten' = keysWritten \cup {scans[c].keyBytes}
            /\ scans' = [scans EXCEPT ![c].pc = "esk_import"]
    /\ UNCHANGED <<secrets, clock, dbVars, totpVars, sessionKey, cache, cards, tickTimer,
                   intervals, handlers, storageOk, dbBlocked, nextKey, nextIv, wiping,
                   readInWipe, stream, qrTimer, qrFound, qrLive, qrStored, qrLate>>

\* ensureSessionKey, lines 385-391: importKey resolves and sessionKey is set;
\* the callback goes on to parse the text it decoded
ScanEskImport(c) ==
    /\ scans[c].pc = "esk_import"
    /\ sessionKey' = Some(scans[c].keyBytes)
    /\ Parsed(c, scans[c].text, scans[c].keyBytes)
    /\ UNCHANGED <<secrets, clock, dbVars, totpVars, meta, cache, cards, tickTimer, intervals,
                   handlers, storageOk, dbBlocked, nextKey, keysWritten, wiping, readInWipe,
                   stream, qrTimer, qrLive, qrStored, qrLate>>

\* addSecret inside storeEntry: listSecrets resolves, the record gets its id;
\* a rejection is caught at line 300
ScanAddList(c) ==
    /\ scans[c].pc = "add_list"
    /\ LET t == scans[c]
           input == StoreInput(FormEntry, encryptAESGCM(t.key, FormEntry.secretBytes, t.iv))
       IN IF ~storageOk
          THEN scans' = [scans EXCEPT ![c] = ScanIdle]
          ELSE scans' = [scans EXCEPT ![c].pc = "add_put",
                   ![c].rec = Some(NewRecord(input, t.iv, clock, listSecrets(secrets)))]
    /\ UNCHANGED <<secrets, clock, dbVars, appVars, totpVars, stream, qrTimer, qrFound, qrLive,
                   qrStored, qrLate>>

\* addSecret's store.add resolves; storeEntry caches the entry, lines
\* 437-445, and the callback calls stopCamera(), closes the dialog and
\* awaits refreshList(), lines 294-296
ScanAddPut(c) ==
    /\ scans[c].pc = "add_put"
    /\ LET rec == scans[c].rec[1] IN
         IF storageOk /\ StoreAddOk(secrets, rec)
         THEN /\ secrets' = StorePut(secrets, rec)
              /\ cache' = CacheSet(cache, CacheEntry(rec, FormEntry.secretBytes))
              /\ qrStored' = IF scans[c].old THEN qrStored ELSE qrStored + 1
              /\ qrLate' = (qrLate \/ (~scans[c].old /\ qrTimer = None))
              /\ stopCamera
              /\ scans' = [scans EXCEPT ![c] = [ScanIdle EXCEPT !.pc = "refresh",
                                                                !.old = scans[c].old]]
         ELSE /\ scans' = [scans EXCEPT ![c] = ScanIdle]
              /\ UNCHANGED <<secrets, cache, qrStored, qrLate, stream, qrTimer, qrLive>>
    /\ UNCHANGED <<clock, dbVars, totpVars, meta, sessionKey, cards, tickTimer, intervals,
                   handlers, storageOk, dbBlocked, nextKey, nextIv, keysWritten, wiping,
                   readInWipe, qrFound>>

\* refreshList, lines 460-480: the cards are rendered anew; a rejection is
\* caught at line 300
ScanRefresh(c) ==
    /\ scans[c].pc = "refresh"
    /\ IF storageOk
       THEN cards' = { CachedInList(secrets, cache)[k] :
                         k \in 1..Len(CachedInList(secrets, cache)) }
       ELSE UNCHANGED cards
    /\ scans' = [scans EXCEPT ![c] = ScanIdle]
    /\ UNCHANGED <<secrets, clock, dbVars, totpVars, meta, sessionKey, cache, tickTimer,
                   intervals, handlers, storageOk, dbBlocked, nextKey, nextIv, keysWritten,
                   wiping, readInWipe, stream, qrTimer, qrFound, qrLive, qrStored, qrLate>>

\* IndexedDB starts or stops rejecting requests
ScanStorage(ok) ==
    /\ storageOk # ok
    /\ storageOk' = ok
    /\ UNCHANGED <<secrets, clock, dbVars, totpVars, meta, sessionKey, cache, cards, tickTimer,
                   intervals, handlers, dbBlocked, nextKey, nextIv, keysWritten, wiping,
                   readInWipe, scanVars>>

\* The page once init() has returned, lines 61-69: with the device key
\* loaded and the ticker running, or, storage rejecting, with sessionKey null
\* and no ticker
InitScan ==
    /\ DbInit
    /\ TotpInit
    /\ ScanInit
    /\ \E loaded \in BOOLEAN, stored \in BOOLEAN :
         /\ (loaded => stored)
         /\ meta = IF stored THEN Some(1) ELSE None
         /\ sessionKey = IF loaded THEN Some(1) ELSE None
         /\ keysWritten = IF stored THEN {1} ELSE {}
         /\ nextKey = IF stored THEN 2 ELSE 1
         /\ tickTimer = IF loaded THEN Some(1) ELSE None
         /\ intervals = IF loaded THEN {1} ELSE {}
         /\ storageOk = loaded
    /\ cache = <<>>
    /\ cards = {}
    /\ handlers = [h \in HandlerNames |-> IdleH]
    /\ dbBlocked = FALSE
    /\ nextIv = 1
    /\ wiping = FALSE
    /\ readInWipe = FALSE

NextScan ==
    \/ ScanStartClick
    \/ ScanMedia
    \/ ScanPlay
    \/ ScanStop
    \/ ScanTick
    \/ \E c \in Callbacks : ScanEskGet(c)
    \/ \E c \in Callbacks : ScanEskPut(c)
    \/ \E c \in Callbacks : ScanEskImport(c)
    \/ \E c \in Callbacks : ScanAddList(c)
    \/ \E c \in Callbacks : ScanAddPut(c)
    \/ \E c \in Callbacks : ScanRefresh(c)
    \/ \E ok \in BOOLEAN : ScanStorage(ok)

SpecScan == InitScan /\ [][NextScan]_vars

-----------------------------------------------------------------------------
(* Reading the history variables *)

\* A store with the updatedAt stamps left out of the comparison
Proj(store) == [i \in DOMAIN store |-> [store[i] EXCEPT !.updatedAt = 0]]

\* What a call does when nothing runs between its transactions
SeqCall(store, c, now) ==
    CASE c.op = "update" ->
           IF c.id \in DOMAIN store
           THEN StorePut(store, MergeUpdate(store[c.id], c.input, now))
           ELSE store
      [] c.op = "delete" -> StoreDelete(store, c.id)
      [] c.op = "reorder" -> ReorderAll(store, c.batch, now)
      [] OTHER -> store

\* The calls of the running group, one at a time in the order f
RECURSIVE SeqRun(_, _, _)
SeqRun(store, f, k) ==
    IF k > Len(calls) THEN store
    ELSE SeqRun(SeqCall(store, calls[f[k]].call, 0), f, k + 1)

\* c is an update, reorder or delete of record id and of nothing else
TouchesOnly(c, id) ==
    \/ c.op \in {"update", "delete"} /\ c.id = id
    \/ c.op = "reorder" /\ c.batch # <<>>
         /\ \A k \in 1..Len(c.batch) : c.batch[k].id = id

\* The one call of a group that ran alone, once it has returned
Alone(p, op) ==
    /\ Len(calls) = 1
    /\ calls[1].p = p
    /\ tasks[p].call.op = op
    /\ tasks[p].pc \in {"done", "failed"}

-----------------------------------------------------------------------------
(* C1: whatever way updateSecret, reorderSecrets and deleteSecret calls on  *)
(* one record id interleave, once they have all returned the store is what  *)
(* running them one at a time in some order would have left: no write is    *)
(* lost and a deleted record is not written back by an earlier reader.      *)

C1_Serializable ==
    (/\ Quiescent
     /\ calls # <<>>
     /\ \E id \in Ids : \A k \in 1..Len(calls) : TouchesOnly(calls[k].call, id))
    => \E f \in Permutations(1..Len(calls)) : Proj(secrets) = Proj(SeqRun(base, f, 1))

\* The fields an UpdateSecretInput may supply
UpdateFields == {"label", "issuer", "alg", "digits", "period", "encSecret", "iv", "order"}

\* The ids a reorder batch lists
BatchIds(batch) == { batch[k].id : k \in 1..Len(batch) }

-----------------------------------------------------------------------------
(* C11: an updateSecret that no other storage call overlaps changes only    *)
(* the fields its input supplies and updatedAt: id, createdAt and every     *)
(* field not supplied keep their stored values, a supplied label is stored  *)
(* trimmed and a supplied order as given, and no other record is touched.   *)

C11_UpdateTouchesOnlySupplied ==
    \A p \in Procs :
        (Alone(p, "update") /\ tasks[p].pc = "done") =>
            LET in == tasks[p].call.input
                id == tasks[p].call.id
            IN /\ DOMAIN secrets = DOMAIN base
               /\ \A i \in DOMAIN base \ {id} : secrets[i] = base[i]
               /\ secrets[id].id = base[id].id
               /\ secrets[id].createdAt = base[id].createdAt
               /\ \A f \in UpdateFields : in[f] = None => secrets[id][f] = base[id][f]
               /\ in.label # None => secrets[id].label = Trim(in.label[1])
               /\ in.order # None => secrets[id].order = in.order[1]
               /\ secrets[id].updatedAt >= base[id].updatedAt
               /\ tasks[p].ret = Some(secrets[id])

\* a label-only update has returned on a store of two records, after the
\* clock moved on from the record's last stamp
C11_Witness ==
    \E p \in Procs :
        /\ Alone(p, "update")
        /\ tasks[p].pc = "done"
        /\ tasks[p].call.input.label # None
        /\ Cardinality(DOMAIN base) >= 2
        /\ secrets[tasks[p].call.id].updatedAt > base[tasks[p].call.id].updatedAt
        /\ secrets[tasks[p].call.id].label # base[tasks[p].call.id].label

-----------------------------------------------------------------------------
(* C12: deleteSecret removes the record of the given id and no other; for   *)
(* an id that is absent it succeeds and leaves the store as it was, so a    *)
(* second delete of the same id changes nothing.                            *)

C12_DeleteRemovesOnlyId ==
    \A p \in Procs :
        Alone(p, "delete") =>
            LET id == tasks[p].call.id IN
            /\ tasks[p].pc = "done"
            /\ DOMAIN secrets = DOMAIN base \ {id}
            /\ \A i \in DOMAIN secrets : secrets[i] = base[i]
            /\ id \notin DOMAIN base => secrets = base

\* a delete has returned that removed a record from between two others
C12_Witness ==
    \E p \in Procs :
        /\ Alone(p, "delete")
        /\ tasks[p].call.id \in DOMAIN base
        /\ \E i, j \in DOMAIN secrets : i < tasks[p].call.id /\ tasks[p].call.id < j

-----------------------------------------------------------------------------
(* C13: reorderSecrets sets the order of every listed id that exists to the *)
(* value given and skips the listed ids that do not exist, without failing  *)
(* and without undoing the rest; the call returns in every case, the empty  *)
(* batch and the batch of missing ids included.                             *)

-----------------------------------------------------------------------------
(* C14 as stated: reorderSecrets changes only the order field of the        *)
(* records it touches; every other field of them, and every record not in   *)
(* the batch, is unchanged.                                                 *)

C14_ReorderOnlyOrder ==
    \A p \in Procs :
        Alone(p, "reorder") =>
            /\ DOMAIN secrets = DOMAIN base
            /\ \A i \in DOMAIN base :
                  IF i \in BatchIds(tasks[p].call.batch)
                  THEN [secrets[i] EXCEPT !.order = base[i].order] = base[i]
                  ELSE secrets[i] = base[i]

(* C14: reorderSecrets changes the order field and the updatedAt stamp of   *)
(* the records it touches and nothing else: their other fields, and every   *)
(* record not listed in the batch, are unchanged.                           *)

C14_ReorderOrderAndStamp ==
    \A p \in Procs :
        Alone(p, "reorder") =>
            /\ DOMAIN secrets = DOMAIN base
            /\ \A i \in DOMAIN base :
                  IF i \in BatchIds(tasks[p].call.batch)
                  THEN /\ [secrets[i] EXCEPT !.order = base[i].order,
                                             !.updatedAt = base[i].updatedAt] = base[i]
                       /\ secrets[i].updatedAt >= base[i].updatedAt
                  ELSE secrets[i] = base[i]

\* a reorder has returned that moved a record and left another one alone
C14_Witness ==
    \E p \in Procs :
        /\ Alone(p, "reorder")
        /\ \E i, j \in DOMAIN base :
              /\ i \in BatchIds(tasks[p].call.batch)
              /\ j \notin BatchIds(tasks[p].call.batch)
              /\ secrets[i].order # base[i].order
              /\ secrets[i].updatedAt # base[i].updatedAt

-----------------------------------------------------------------------------
(* C2: between wipes at most one device key value is ever written under the *)
(* meta key 'appKey': once a key is persisted no ensureSessionKey call,     *)
(* however the calls interleave, persists a different one.                  *)

C2_OneDeviceKey == Cardinality(keysWritten) <= 1

-----------------------------------------------------------------------------
(* C3: when unlock meets a record whose decryption fails, every record of   *)
(* the list whose decryption succeeds is still loaded into the decrypted    *)
(* cache, the records after the bad one included.                           *)

C3_UnlockLoadsGoodRecords ==
    LET t == handlers["init"] IN
    (/\ t.pc \in {"done", "rejected"}
     /\ t.decFailed
     /\ handlers["wipe"].pc = "idle")
    => \A k \in 1..Len(t.records) :
         decryptAESGCM(t.key, t.records[k].iv, t.records[k].encSecret) # None
            => t.records[k].id \in CacheIds(cache)

-----------------------------------------------------------------------------
(* C4: when a storage request of the bootstrap (metaGet, metaPut or         *)
(* listSecrets under init -> unlock) fails, init still completes without an *)
(* unhandled error, the decrypted cache is empty and the ticker is running. *)

C4_BootstrapSurvivesStorageFailure ==
    LET t == handlers["init"] IN
    (/\ t.storageFailed
     /\ t.pc \in {"done", "rejected"}
     /\ handlers["wipe"].pc = "idle")
    => /\ t.pc = "done"
       /\ cache = <<>>
       /\ tickTimer # None
       /\ intervals # {}

-----------------------------------------------------------------------------
(* C5: clearAppData stops the ticker before it zeroes any secretBytes; once *)
(* the zeroing has begun no updateCodes or refreshList run, one suspended   *)
(* at an await included, reads the secretBytes of a cache entry, and the    *)
(* ticker is not started again before the reload.                           *)

C5_WipeQuietUntilReload ==
    /\ handlers["wipe"].pc = "wipe_zero" => intervals = {}
    /\ wiping => intervals = {}
    /\ ~readInWipe

-----------------------------------------------------------------------------
(* C6: no two records stored under the same device key have the same iv:    *)
(* every record carries the iv drawn inside the encryptAESGCM call that     *)
(* made its ciphertext, and an encryption under way under a key uses no iv  *)
(* that a stored record of that key already has.                            *)

C6_IvUniquePerKey ==
    /\ \A i \in DOMAIN secrets : secrets[i].iv = secrets[i].encSecret.iv
    /\ \A i, j \in DOMAIN secrets :
         (i # j /\ secrets[i].encSecret.key = secrets[j].encSecret.key)
            => secrets[i].iv # secrets[j].iv
    /\ \A i \in DOMAIN secrets :
         (/\ handlers["submit"].pc = "add_list"
          /\ handlers["submit"].key = secrets[i].encSecret.key)
            => handlers["submit"].iv # secrets[i].iv

\* two records encrypted under one key are in the store
C6_Witness ==
    \E i, j \in DOMAIN secrets :
        /\ i # j
        /\ secrets[i].encSecret.key = secrets[j].encSecret.key

-----------------------------------------------------------------------------
(* C15: when a confirmed wipe finishes (clearAppData reaches its reload)    *)
(* the decrypted cache is empty and sessionKey is null, and the page that   *)
(* loads finds the records store empty and no 'appKey' in the meta store,   *)
(* however a form submit that was in progress when the wipe started         *)
(* interleaves with it.  (init had finished before the wipe started: it     *)
(* has completed and the ticker it starts is not running.)                  *)

C15_WipeLeavesNothing ==
    [][(/\ WipeFinish
        /\ handlers["init"].pc = "done"
        /\ intervals = {})
       => /\ cache = <<>>
          /\ sessionKey = None
          /\ secrets' = EmptyStore
          /\ meta' = None]_vars

-----------------------------------------------------------------------------
(* C16: over any interleaving of addSecret, updateSecret and reorderSecrets *)
(* calls, with a clock that never goes back, no step lowers the updatedAt   *)
(* of a record, and createdAt <= updatedAt holds for every stored record.   *)

C16_StampsMonotone ==
    [][/\ \A i \in DOMAIN secrets \cap DOMAIN secrets' :
            secrets'[i].updatedAt >= secrets[i].updatedAt
       /\ \A i \in DOMAIN secrets' : secrets'[i].createdAt <= secrets'[i].updatedAt]_vars

-----------------------------------------------------------------------------
(* C17: whenever the code removes an entry from the decrypted cache (the    *)
(* wipe, or the reset at the start of unlock), the entry's secretBytes have *)
(* been overwritten with zeros before the removal.  The page being         *)
(* unloaded is not such a removal.                                          *)

C17_ZeroedBeforeRemoval ==
    [][(~WipeFinish /\ ~UserReload)
       => \A k \in 1..Len(cache) :
            cache[k].id \notin CacheIds(cache') => cache[k].secretBytes = 0]_vars

\* The whole seconds of the timestamps, with one more on each side
SecondsRange == (-(MaxSeconds + 1))..(MaxSeconds + 1)

\* totpOut holds what fn returned
Got(fn) == totpOut # None /\ totpOut[1].fn = fn

\* The number a string of decimal digits writes
RECURSIVE DecimalValue(_)
DecimalValue(str) ==
    IF str = <<>> THEN 0
    ELSE DecimalValue(SubSeq(str, 1, Len(str) - 1)) * 10
         + (CHOOSE d \in 0..9 : DigitChars[d + 1] = str[Len(str)])

-----------------------------------------------------------------------------
(* C18: for every integer timestamp t, negative ones included, and every    *)
(* period in [5,300], secondsRemaining(t, period) is                        *)
(* period - (floor(t/1000) mod period) - 1 and lies in [0, period-1].       *)

C18_SecondsRemainingInRange ==
    Got("secondsRemaining") =>
        LET t == totpIn.ts
            period == totpIn.period
            r == totpOut[1].value
            m == period - 1 - r
        IN /\ r \in 0..(period - 1)
           /\ \E sec \in SecondsRange :
                 /\ sec * 1000 <= t /\ t < (sec + 1) * 1000
                 /\ \E k \in SecondsRange : sec = k * period + m

-----------------------------------------------------------------------------
(* C19: stepAt(t, period) is floor(floor(t/1000)/period); it never          *)
(* decreases as t grows, and from t to t + 1000 it grows by exactly 1 when  *)
(* floor(t/1000) + 1 is a multiple of period and stays the same otherwise.  *)

C19_StepAtFloorsAndGrows ==
    Got("stepAt") =>
        LET t == totpIn.ts
            period == totpIn.period
            r == totpOut[1].value
        IN /\ \E sec \in SecondsRange :
                 /\ sec * 1000 <= t /\ t < (sec + 1) * 1000
                 /\ r * period <= sec /\ sec < (r + 1) * period
                 /\ (t + 1000) \in Timestamps =>
                       stepAt(t + 1000, period) - r
                         = IF \E k \in SecondsRange : sec + 1 = k * period THEN 1 ELSE 0
           /\ \A t2 \in Timestamps : t <= t2 => r <= stepAt(t2, period)

\* stepAt has returned for a timestamp before the epoch, one second short
\* of the next step
C19_Witness ==
    /\ Got("stepAt")
    /\ totpIn.ts < 0
    /\ totpOut[1].value < 0
    /\ (totpIn.ts + 1000) \in Timestamps
    /\ stepAt(totpIn.ts + 1000, totpIn.period) = totpOut[1].value + 1

-----------------------------------------------------------------------------
(* C20: for an HMAC output of 20 or 32 bytes and digits 6 or 8, the code    *)
(* dynamicTruncate and padDigits produce has exactly `digits` characters,   *)
(* all decimal digits, and writes the number: the 4 bytes at offset (the    *)
(* low 4 bits of the last byte) read big-endian with the top bit cleared,   *)
(* modulo 10^digits.                                                        *)

C20_CodeIsTruncatedAndPadded ==
    Got("code") =>
        LET mac == totpIn.mac
            digits == totpIn.digits
            code == totpOut[1].value
            offset == mac[Len(mac)] % 16
            binary == (mac[offset + 1] % 128) * 16777216 + mac[offset + 2] * 65536
                      + mac[offset + 3] * 256 + mac[offset + 4]
        IN /\ Len(code) = digits
           /\ \A k \in 1..Len(code) : \E d \in 1..10 : code[k] = DigitChars[d]
           /\ DecimalValue(code) = binary % (10 ^ digits)

\* the code of a 32-byte output whose window has its top bit set and whose
\* number needs leading zeros
C20_Witness ==
    /\ Got("code")
    /\ Len(totpIn.mac) = 32
    /\ totpIn.mac[Len(totpIn.mac)] % 16 = 15
    /\ totpIn.mac[16] >= 128
    /\ totpOut[1].value[1] = "0"
    /\ DecimalValue(totpOut[1].value) > 0

-----------------------------------------------------------------------------
(* C21: generateTOTPWindow returns step = stepAt(timestamp, normalized      *)
(* period), and prev, current and next equal to generateTOTPForStep at      *)
(* step-1, step and step+1 with the same secret, digits and algorithm, in   *)
(* whatever order the three computations complete; remainingSeconds is      *)
(* secondsRemaining(timestamp, normalized period).                          *)

C21_WindowIsThreeSteps ==
    Got("generateTOTPWindow") =>
        LET opts == totpIn.opts
            w == totpOut[1].value
            ts == IF opts.timestamp # None THEN opts.timestamp[1] ELSE totpIn.now
            period == normalizePeriod(opts.period)
            digits == normalizeDigits(opts.digits)
            alg == normalizeAlg(opts.algorithm)
        IN /\ w.step = stepAt(ts, period)
           /\ w.prev = generateTOTPForStep(opts.secret, w.step - 1, digits, alg)
           /\ w.current = generateTOTPForStep(opts.secret, w.step, digits, alg)
           /\ w.next = generateTOTPForStep(opts.secret, w.step + 1, digits, alg)
           /\ w.remainingSeconds = secondsRemaining(ts, period)

\* a window has returned three different codes whose computations completed
\* last one first, for a period that normalization had to clamp
C21_Witness ==
    /\ Got("generateTOTPWindow")
    /\ totpRun[1].settled = <<3, 1, 2>>
    /\ totpIn.opts.period = Some(JsNum(-3))
    /\ totpOut[1].value.period = MinPeriod
    /\ totpOut[1].value.prev # totpOut[1].value.current
    /\ totpOut[1].value.current # totpOut[1].value.next
    /\ totpOut[1].value.prev # totpOut[1].value.next

\* What the claims call the cleaned form of a Base32 text: its whitespace
\* removed, then its trailing '=' removed, then in upper case
CleanedForm(input) ==
    LET kept == SelectSeq(input, LAMBDA c : c \notin {" ", "\t", "\n", "\r"})
        last == SetMax({ k \in 1..Len(kept) : kept[k] # "=" } \cup {0})
    IN toUpperCase(SubSeq(kept, 1, last))

\* The symbols A-Z and 2-7
Base32Symbols == { UpperChars[k] : k \in 1..26 } \cup {"2", "3", "4", "5", "6", "7"}

(* C22: base32DecodeToBytes throws an invalid-character error exactly when  *)
(* its input, with whitespace and trailing '=' removed and in upper case,   *)
(* holds a character outside A-Z and 2-7 (an '=' that is not trailing       *)
(* included), and then returns no bytes; an input that is empty after       *)
(* cleaning returns the empty byte sequence without error.                  *)

C22_InvalidCharacterThrows ==
    Got("base32DecodeToBytes") =>
        LET out == totpOut[1].value
            cleaned == CleanedForm(totpIn.input)
        IN /\ out.threw <=> \E i \in 1..Len(cleaned) : cleaned[i] \notin Base32Symbols
           /\ out.threw => /\ out.value = None
                           /\ out.message[1] = "Invalid Base32 character: "
           /\ cleaned = <<>> => out = Ok(<<>>)

\* "MZ=XW6", whose '=' is not trailing, has been refused
C22_Witness ==
    /\ Got("base32DecodeToBytes")
    /\ totpIn.input = <<"M", "Z", "=", "X", "W", "6">>
    /\ totpOut[1].value.threw
    /\ totpOut[1].value.message = <<"Invalid Base32 character: ", "=">>

(* C23: for a valid cleaned input of n symbols, base32DecodeToBytes returns *)
(* exactly floor(5n/8) bytes, the leading floor(5n/8)*8 bits of the 5-bit   *)
(* symbol values concatenated most significant bit first, and drops the     *)
(* bits left over without error; also for n > 6, where the 32-bit           *)
(* accumulator has lost its oldest bits.                                    *)

C23_PacksMsbFirst ==
    LET cleaned == CleanedForm(totpIn.input)
        n == Len(cleaned)
        val(i) == (CHOOSE k \in 1..32 : Base32Alphabet[k] = cleaned[i]) - 1
        bit(j) == Bit(val(((j - 1) \div 5) + 1), 4 - ((j - 1) % 5))
        byte(k) == 128 * bit(8 * k - 7) + 64 * bit(8 * k - 6) + 32 * bit(8 * k - 5)
                   + 16 * bit(8 * k - 4) + 8 * bit(8 * k - 3) + 4 * bit(8 * k - 2)
                   + 2 * bit(8 * k - 1) + bit(8 * k)
    IN (/\ Got("base32DecodeToBytes")
        /\ \A i \in 1..n : cleaned[i] \in Base32Symbols)
       => totpOut[1].value = Ok([k \in 1..((5 * n) \div 8) |-> byte(k)])

\* ten symbols beginning with '7' have given six bytes: from the seventh
\* symbol on the accumulator no longer holds the first
C23_Witness ==
    /\ Got("base32DecodeToBytes")
    /\ totpIn.input \in SymbolStrings
    /\ Len(totpIn.input) = 10
    /\ totpIn.input[1] = "7"
    /\ ~totpOut[1].value.threw
    /\ Len(totpOut[1].value.value) = 6
    /\ totpOut[1].value.value[1] >= 248

(* C24: for every byte sequence B, decoding the RFC 4648 Base32 encoding of *)
(* B, with or without '=' padding, in upper or in lower case, returns B.    *)

C24_RoundTrip ==
    (Got("base32DecodeToBytes") /\ totpIn.encodes # None) =>
        LET B == totpIn.encodes[1]
        IN /\ totpIn.input \in { base32Encode(B, TRUE), base32Encode(B, FALSE),
                                  toLowerCase(base32Encode(B, TRUE)),
                                  toLowerCase(base32Encode(B, FALSE)) }
           /\ totpOut[1].value = Ok(B)

\* the padded lower-case encoding of the bytes 90, 255, "ll7q====", has been
\* decoded to them
C24_Witness ==
    /\ Got("base32DecodeToBytes")
    /\ totpIn.encodes = Some(<<90, 255>>)
    /\ totpIn.input = <<"l", "l", "7", "q", "=", "=", "=", "=">>
    /\ totpOut[1].value = Ok(<<90, 255>>)

(* C25: decoding is unaffected by whitespace anywhere in the input, by      *)
(* letter case and by trailing '=': two inputs whose cleaned forms are      *)
(* equal decode alike ("JBSW Y3DP" and "jbswy3dp==" for example).           *)

C25_CleaningInsensitive ==
    Got("base32DecodeToBytes") =>
        \A other \in ShortStrings \cup SpacedStrings :
            CleanedForm(other) = CleanedForm(totpIn.input)
            => base32DecodeToBytes(other) = totpOut[1].value

\* "JBSW Y3DP" has been decoded to the bytes of "Hello", as "jbswy3dp==" is
C25_Witness ==
    /\ Got("base32DecodeToBytes")
    /\ totpIn.input = <<"J", "B", "S", "W", " ", "Y", "3", "D", "P">>
    /\ totpOut[1].value = Ok(<<72, 101, 108, 108, 111>>)
    /\ base32DecodeToBytes(<<"j", "b", "s", "w", "y", "3", "d", "p", "=", "=">>) = totpOut[1].value

(* C26: parseOtpauthUri returns a descriptor only when the URI is well      *)
(* formed, its scheme is otpauth, its type is totp in any case, a secret    *)
(* parameter is present and that secret is valid Base32; in every other     *)
(* case (malformed URI, other scheme, type hotp or any other, secret        *)
(* absent, invalid Base32 character) it throws, and no descriptor comes     *)
(* with the error.                                                          *)

C26_ParseRejects ==
    Got("parseOtpauthUri") =>
        LET out == totpOut[1].value
            wellFormed == totpIn.scheme # <<>> /\ (totpIn.sep = <<":", "/", "/">> => totpIn.host # None)
            schemeOk == toLowerCase(totpIn.scheme) = <<"o", "t", "p", "a", "u", "t", "h">>
            typeOk == /\ totpIn.sep = <<":", "/", "/">>
                      /\ totpIn.host # None
                      /\ toLowerCase(totpIn.host[1]) = <<"t", "o", "t", "p">>
            secretOk == /\ totpIn.secret # None
                        /\ totpIn.secret[1] # <<>>
                        /\ \A i \in 1..Len(CleanedForm(totpIn.secret[1])) :
                               CleanedForm(totpIn.secret[1])[i] \in Base32Symbols
        IN /\ ~(wellFormed /\ schemeOk /\ typeOk /\ secretOk) => out.threw
           /\ out.threw => out.value = None
           /\ (schemeOk /\ ~wellFormed)
                  => out.message = <<"Invalid otpauth URI: malformed URL">>
           /\ (schemeOk /\ wellFormed /\ ~typeOk)
                  => out.message = <<"Only TOTP is supported">>

\* an otpauth URI of type hotp with a valid secret has been refused
C26_Witness ==
    /\ Got("parseOtpauthUri")
    /\ totpIn.scheme = <<"o", "t", "p", "a", "u", "t", "h">>
    /\ totpIn.sep = <<":", "/", "/">>
    /\ totpIn.host = Some(<<"h", "o", "t", "p">>)
    /\ totpIn.secret = Some(<<"J", "B", "S", "W", "Y", "3", "D", "P">>)
    /\ totpOut[1].value = Throw(<<"Only TOTP is supported">>)

(* C27: for every input (missing, non-numeric, fractional, out of range)    *)
(* the descriptor parseOtpauthUri or fromManualInput returns has an integer *)
(* period in [5,300] (30 when omitted or not finite, unchanged when already *)
(* an integer in range), digits in {6,8} (8 only when the input is exactly  *)
(* 8) and algorithm SHA-1 or SHA-256 (SHA-1 when omitted or unrecognised);  *)
(* normalization raises no error, and every record stored through          *)
(* storeEntry has its period in [5,300] and its digits in {6,8}.            *)

C27_NormalizedFields ==
    LET out == totpOut[1].value
        entry == out.value
        given == IF totpIn.kind = "uri"
                 THEN [digits |-> totpIn.digits, period |-> totpIn.period,
                       algorithm |-> totpIn.algorithm]
                 ELSE [digits |-> totpIn.digitsInput, period |-> totpIn.periodInput,
                       algorithm |-> totpIn.algorithmInput]
        integerInRange(p) == /\ p # None /\ isFinite(p[1]) /\ p[1].den = 1
                             /\ p[1].num \in MinPeriod..MaxPeriod
        recognised(a) == a # None /\ toUpperCase(a[1]) \in
                             { <<"S", "H", "A", "1">>, <<"S", "H", "A", "-", "1">>, <<"S", "H", "A", "2", "5", "6">>, <<"S", "H", "A", "-", "2", "5", "6">> }
    IN /\ (totpOut # None /\ totpIn.kind \in {"uri", "manual"} /\ ~out.threw) =>
             /\ entry.period \in MinPeriod..MaxPeriod
             /\ (given.period = None \/ ~isFinite(given.period[1])) => entry.period = 30
             /\ integerInRange(given.period) => entry.period = given.period[1].num
             /\ entry.digits \in {6, 8}
             /\ entry.digits = 8 => given.digits = Some(JsNum(8))
             /\ entry.algorithm \in {"SHA-1", "SHA-256"}
             /\ ~recognised(given.algorithm) => entry.algorithm = "SHA-1"
       /\ (totpOut # None /\ totpIn.kind \in {"uri", "manual", "manualForm"} /\ out.threw) =>
             out.message[1] \in { "Invalid otpauth URI: malformed URL",
                                  "Invalid otpauth URI: protocol must be otpauth",
                                  "Only TOTP is supported", "URI malformed",
                                  "Missing secret parameter", "Invalid Base32 character: " }
       /\ \A id \in DOMAIN secrets :
             /\ secrets[id].period \in MinPeriod..MaxPeriod
             /\ secrets[id].digits \in {6, 8}

(* C28: every credential descriptor parseOtpauthUri or fromManualInput      *)
(* returns has secretBytes of length greater than 0, so that no record is   *)
(* stored and no cache entry is created with an empty secret.               *)

C28_SecretNeverEmpty ==
    /\ (totpOut # None /\ totpIn.kind \in {"uri", "manual", "manualForm"}
        /\ ~totpOut[1].value.threw)
           => Len(totpOut[1].value.value.secretBytes) > 0
    /\ \A k \in 1..Len(cache) : Len(cache[k].secretBytes) > 0
    /\ \A id \in DOMAIN secrets : Len(secrets[id].encSecret.pt) > 0

(* C29: decryptAESGCM(key, iv, c) returns the plaintext p exactly when       *)
(* (c, iv) is what encryptAESGCM(key, p) returned under the same key; with   *)
(* another key, another iv, or any bit of the ciphertext or of its tag       *)
(* changed, it fails and returns no bytes.                                   *)
C29_DecryptInverts ==
    Got("decryptAESGCM") =>
        LET call == totpOut[1].value
            same == /\ call.key = totpIn.key
                    /\ call.iv = call.encrypted.iv
                    /\ call.ciphertext = call.encrypted.ciphertext
        IN /\ same => call.outcome = Ok(totpIn.plaintext)
           /\ ~same => call.outcome.threw /\ call.outcome.value = None

\* the last bit of the tag of a two-block ciphertext was inverted, and the
\* call failed
C29_Witness ==
    /\ Got("decryptAESGCM")
    /\ totpIn.plaintext = RfcSecret
    /\ totpOut[1].value.key = totpIn.key
    /\ totpOut[1].value.iv = totpOut[1].value.encrypted.iv
    /\ Len(totpOut[1].value.ciphertext) = 36
    /\ totpOut[1].value.ciphertext = FlipBit(totpOut[1].value.encrypted.ciphertext, 280)
    /\ totpOut[1].value.outcome.threw

(* C30: generateTOTPForStep with the 20-byte ASCII secret                   *)
(* "12345678901234567890", SHA-1 and 6 digits gives the RFC 4226 Appendix D *)
(* HOTP code of each counter 0 to 9 ("755224" for 0, "287082" for 1).       *)

C30_Rfc4226Vectors ==
    LET Rfc4226Codes ==
            << Chars(<<7, 5, 5, 2, 2, 4>>), Chars(<<2, 8, 7, 0, 8, 2>>),
               Chars(<<3, 5, 9, 1, 5, 2>>), Chars(<<9, 6, 9, 4, 2, 9>>),
               Chars(<<3, 3, 8, 3, 1, 4>>), Chars(<<2, 5, 4, 6, 7, 6>>),
               Chars(<<2, 8, 7, 9, 2, 2>>), Chars(<<1, 6, 2, 5, 8, 3>>),
               Chars(<<3, 9, 9, 8, 7, 1>>), Chars(<<5, 2, 0, 4, 8, 9>>) >>
    IN Got("generateTOTPForStep") =>
           /\ totpIn.secret = RfcSecret /\ totpIn.step \in RfcCounters
           /\ totpOut[1].value = Rfc4226Codes[totpIn.step + 1]

\* counter 1 has been computed through importKey and sign, and gave "287082"
C30_Witness ==
    /\ Got("generateTOTPForStep")
    /\ totpIn.secret = RfcSecret /\ totpIn.algorithm = "SHA-1" /\ totpIn.digits = 6
    /\ totpIn.step = 1
    /\ totpRun[1].settled = <<1>>
    /\ totpOut[1].value = <<"2", "8", "7", "0", "8", "2">>

-----------------------------------------------------------------------------
(* C31: numberTo8ByteBE(n) is the 8-byte big-endian encoding of n for every *)
(* step n >= 0, steps above 2^32 included, and eight 0xFF bytes for n = -1.  *)
C31_BigEndianCounter ==
    (Got("numberTo8ByteBE") /\ totpIn.n.half = 0) =>
        LET n == totpIn.n
            b == totpOut[1].value
        IN /\ Len(b) = 8
           /\ \A i \in 1..8 : b[i] \in 0..255
           /\ n.hi >= 0 =>
                 /\ b[1] = 0
                 /\ ((b[2] * 256 + b[3]) * 256 + b[4]) * 256 + b[5] = n.hi
                 /\ (b[6] * 256 + b[7]) * 256 + b[8] = n.lo
           /\ (n.hi = -1 /\ n.lo = 2 ^ 24 - 1) => b = [i \in 1..8 |-> 255]

\* the step 2^32 + 1 was encoded
C31_Witness ==
    /\ Got("numberTo8ByteBE")
    /\ totpIn.n = [hi |-> 256, lo |-> 1, half |-> 0]
    /\ totpOut[1].value = <<0, 0, 0, 1, 0, 0, 0, 1>>

(* C32: every record in the store was encrypted with the key now persisted  *)
(* under the meta key 'appKey', and sessionKey, when set, is that key,       *)
(* however the calls of ensureSessionKey and storeEntry interleave.          *)
C32_RecordsUnderStoredKey ==
    ~wiping =>
        /\ \A r \in { listSecrets(secrets)[k] : k \in 1..Len(listSecrets(secrets)) } :
              meta # None /\ r.encSecret.key = meta[1]
        /\ sessionKey # None => (meta # None /\ sessionKey[1] = meta[1])

(* C33: after a successful unlock, whenever no add, rename or delete       *)
(* handler is in progress, the cache holds exactly the ids of the records  *)
(* in the store, and each cached label, issuer, alg, digits and period     *)
(* equals the stored record's.                                             *)
C33_CacheMirrorsStore ==
    (\A h \in {"submit", "rename", "delete"} : ~Busy(h)) =>
        /\ CacheIds(cache) = DOMAIN secrets
        /\ \A k \in 1..Len(cache) :
              cache[k].id \in DOMAIN secrets =>
                  LET r == secrets[cache[k].id] IN
                      /\ cache[k].label = r.label
                      /\ cache[k].issuer = r.issuer
                      /\ cache[k].alg = r.alg
                      /\ cache[k].digits = r.digits
                      /\ cache[k].period = r.period

(* C34: no two records in the store have the same order, whatever the       *)
(* interleaving of addSecret calls, moveSecret swaps and deletes that       *)
(* began from the empty store.                                              *)
C34_OrdersDistinct ==
    \A i, j \in DOMAIN secrets : i # j => secrets[i].order # secrets[j].order

(* C35: moveSecret(id, up or down), run with no other handler in flight,    *)
(* exchanges the list positions of the record and its immediate neighbour   *)
(* in that direction and leaves the position and the order of every other   *)
(* record unchanged; up on the first record, down on the last record and an *)
(* id that is not in the store change nothing.                              *)
C35_MoveSwapsNeighbours ==
    LET t == handlers["move"]
        before == ListIds(t.was.secrets)
        after == ListIds(secrets)
        idx == FindIndex(listSecrets(t.was.secrets), t.id)
        swapIdx == IF t.dir = "down" THEN idx + 1 ELSE idx - 1
    IN (t.alone /\ t.pc \in {"refresh", "done"}) =>
           IF idx = 0 \/ swapIdx < 1 \/ swapIdx > Len(before)
           THEN secrets = t.was.secrets
           ELSE /\ Len(after) = Len(before)
                /\ after[idx] = before[swapIdx]
                /\ after[swapIdx] = before[idx]
                /\ \A k \in 1..Len(before) :
                      k \notin {idx, swapIdx} =>
                          /\ after[k] = before[k]
                          /\ secrets[before[k]].order = t.was.secrets[before[k]].order

C35_Witness ==
    LET t == handlers["move"]
        idx == FindIndex(listSecrets(t.was.secrets), t.id)
    IN /\ t.alone /\ t.pc = "done" /\ t.dir = "up"
       /\ Len(listSecrets(t.was.secrets)) = 3
       /\ idx = 3
       /\ ListIds(secrets)[2] = t.id
       /\ ListIds(secrets)[1] = ListIds(t.was.secrets)[1]

(* C36: when the storage call of an add, rename or delete handler rejects   *)
(* (addSecret, updateSecret, deleteSecret), the cache is exactly what it    *)
(* was when the handler began: no entry added, relabelled, zeroed or        *)
(* removed.                                                                 *)
C36_FailedCallLeavesCache ==
    \A h \in {"submit", "rename", "delete"} :
        (/\ handlers[h].alone
         /\ handlers[h].pc = "failed"
         /\ handlers[h].failedAt \in {"addSecret", "updateSecret", "deleteSecret"}) =>
            cache = handlers[h].was.cache

C36_Witness ==
    /\ handlers["submit"].alone
    /\ handlers["submit"].pc = "failed"
    /\ handlers["submit"].failedAt = "addSecret"
    /\ handlers["submit"].id # 0
    /\ Len(cache) = 2
    /\ cache = handlers["submit"].was.cache

(* C37: within one camera scan session, from Start Camera until stopCamera, *)
(* the callbacks store at most one entry, also when a callback is suspended *)
(* at await ensureSessionKey() or await storeEntry() while the next tick    *)
(* fires; and after stopCamera no callback stores an entry.                 *)
C37_OneEntryPerScan == qrStored <= 1 /\ ~qrLate

(* C38: at most one ticker interval is live at any time: whatever           *)
(* startTicker and stopTicker calls have been made (unlock's success, init's *)
(* failure path, the wipe), tickTimer refers to the only live interval, and *)
(* with tickTimer null, as stopTicker leaves it, none is running.           *)
C38_OneTicker ==
    intervals = (IF tickTimer = None THEN {} ELSE {tickTimer[1]})

C38_Witness ==
    /\ handlers["wipe"].pc = "wipe_zero"
    /\ handlers["init"].pc = "done"
    /\ ~handlers["init"].inCatch
    /\ tickTimer = None
    /\ intervals = {}

(* C7: an addSecret that no other storage call overlaps stores a record     *)
(* with order 1 on an empty store and max(existing orders)+1 otherwise,     *)
(* createdAt equal to updatedAt and an id no existing record uses, and      *)
(* returns exactly the record it persisted.                                 *)

C7_AddAssignsNextOrder ==
    \A p \in Procs :
        (Alone(p, "add") /\ tasks[p].pc = "done") =>
            LET r == tasks[p].ret[1] IN
            /\ r.id \notin DOMAIN base
            /\ r.order = IF DOMAIN base = {} THEN 1
                         ELSE SetMax({ base[i].order : i \in DOMAIN base }) + 1
            /\ r.createdAt = r.updatedAt
            /\ DOMAIN secrets = DOMAIN base \cup {r.id}
            /\ secrets[r.id] = r
            /\ \A i \in DOMAIN base : secrets[i] = base[i]

\* an add onto a store whose orders are not 1..n
C7_Witness ==
    \E p \in Procs :
        /\ Alone(p, "add") /\ tasks[p].pc = "done"
        /\ DOMAIN base # {}
        /\ tasks[p].ret[1].order # Cardinality(DOMAIN base) + 1

-----------------------------------------------------------------------------
(* C8: after sequential adds alone, listSecrets returns the records in the  *)
(* order they were added; when a reorderSecrets call then gives one record  *)
(* an order below all the others, listSecrets returns that record first and *)
(* the others in the relative order they had (A, B, C then C to 0 lists     *)
(* C, A, B).                                                                *)

C8_ListFollowsAddsAndReorder ==
    /\ (Quiescent /\ Len(insertSeq) = nops) => ListIds(secrets) = insertSeq
    /\ \A p \in Procs :
         (/\ Alone(p, "reorder")
          /\ Len(tasks[p].call.batch) = 1
          /\ tasks[p].call.batch[1].id \in DOMAIN base
          /\ \A i \in DOMAIN base \ {tasks[p].call.batch[1].id} :
                tasks[p].call.batch[1].order < base[i].order)
         => ListIds(secrets) =
               <<tasks[p].call.batch[1].id>>
               \o Remove(ListIds(base), tasks[p].call.batch[1].id)

\* three adds, then the last added moved to the front
C8_Witness ==
    \E p \in Procs :
        /\ Alone(p, "reorder")
        /\ nops = 4
        /\ Len(insertSeq) = 3
        /\ ListIds(base) = insertSeq
        /\ ListIds(secrets) = <<insertSeq[3], insertSeq[1], insertSeq[2]>>

-----------------------------------------------------------------------------
(* C9: listSecrets returns every stored record exactly once, ascending by   *)
(* order; records with equal order appear in ascending id order, the order  *)
(* in which getAll hands them to the sort.                                  *)

ListsEveryRecordOnce(store) ==
    /\ Len(listSecrets(store)) = Cardinality(DOMAIN store)
    /\ \A i \in DOMAIN store : \E k \in 1..Len(listSecrets(store)) : listSecrets(store)[k] = store[i]

Ascending(list) ==
    \A j, k \in 1..Len(list) : j < k => list[j].order <= list[k].order

Position(seq, x) == CHOOSE k \in 1..Len(seq) : seq[k] = x

C9_ListSortedTiesById ==
    /\ ListsEveryRecordOnce(secrets)
    /\ Ascending(listSecrets(secrets))
    /\ \A j, k \in 1..Len(listSecrets(secrets)) :
         (j < k /\ listSecrets(secrets)[j].order = listSecrets(secrets)[k].order)
         => listSecrets(secrets)[j].id < listSecrets(secrets)[k].id

\* C9 as claimed: records with equal order appear in insertion order
C9_TiesByInsertion ==
    /\ ListsEveryRecordOnce(secrets)
    /\ Ascending(listSecrets(secrets))
    /\ \A j, k \in 1..Len(listSecrets(secrets)) :
         (j < k /\ listSecrets(secrets)[j].order = listSecrets(secrets)[k].order)
         => Position(insertSeq, listSecrets(secrets)[j].id)
              < Position(insertSeq, listSecrets(secrets)[k].id)

\* a listSecrets call has returned two records of equal order, the one
\* inserted later first
C9_Witness ==
    \E p \in Procs :
        /\ Alone(p, "list") /\ tasks[p].pc = "done"
        /\ tasks[p].ret = listSecrets(secrets)
        /\ \E j, k \in 1..Len(tasks[p].ret) :
             /\ j < k
             /\ tasks[p].ret[j].order = tasks[p].ret[k].order
             /\ Position(insertSeq, tasks[p].ret[k].id) < Position(insertSeq, tasks[p].ret[j].id)

-----------------------------------------------------------------------------
(* C10: updateSecret on an id that is not in the store fails with the       *)
(* not-found error and leaves the records store as it was.                  *)

C10_UpdateMissingFails ==
    \A p \in Procs :
        (Alone(p, "update") /\ tasks[p].call.id \notin DOMAIN base) =>
            /\ tasks[p].pc = "failed"
            /\ tasks[p].err = "Secret not found"
            /\ secrets = base

\* the update of a missing id has returned, on a store that holds records
C10_Witness ==
    \E p \in Procs :
        /\ Alone(p, "update")
        /\ tasks[p].call.id \notin DOMAIN base
        /\ DOMAIN base # {}

=============================================================================
